---- MODULE Spec2Model ----
(***************************************************************************)
(* A model of the WAST directive parser of spec-test/src/parser.rs.        *)
(*                                                                         *)
(* Characters are Unicode code points (integers), string bodies and digit  *)
(* strings are sequences of code points.  Fixed-width machine integers are *)
(* little-endian sequences of 16-bit limbs, so that the 32- and 64-bit     *)
(* arithmetic of the scalar decoder is computed at its real width.         *)
(* Every parsing function of the source takes `&mut Parser` and returns a  *)
(* Result; here it is an operator from a parser record to a record         *)
(* [ok, v, p] or [ok, e, p], p being the parser as the call leaves it.     *)
(***************************************************************************)
EXTENDS Integers, Sequences, FiniteSets, TLC

VARIABLES
    parser,     \* the Parser under test (source, tokens, current_pos, ignored_error)
    pc,         \* position of the caller: "start", "loop", "done", "failed", "idle"
    directives, \* the Vec<Directive> Root::parse has built so far
    result,     \* what the last call returned to the caller
    trace,      \* the parser as the caller saw it before the last step
    script,     \* the top-level forms the source text was written from
    lit         \* the literal a scalar-decoder run was started on

vars == <<parser, pc, directives, result, trace, script, lit>>

\* Option::None.  It carries the fields a test on a token or an error kind reads.
None == [k |-> "None", t |-> "None"]

(***************************************************************************)
(* Multi-limb naturals.                                                    *)
(***************************************************************************)
LimbBase == 2^16

NumLimbs(w) == w \div 16

Zero(n) == [i \in 1..n |-> 0]

\* u * m + d over the limbs of u; carry is what does not fit.
RECURSIVE MulAddFrom(_, _, _, _)
MulAddFrom(u, m, c, i) ==
    IF i > Len(u) THEN [u |-> u, carry |-> c]
    ELSE LET t == u[i] * m + c
         IN  MulAddFrom([u EXCEPT ![i] = t % LimbBase], m, t \div LimbBase, i + 1)

MulAdd(u, m, d) == MulAddFrom(u, m, d, 1)

\* a + b + c over limbs of equal length, wrapping.
RECURSIVE AddFrom(_, _, _, _)
AddFrom(a, b, c, i) ==
    IF i > Len(a) THEN [u |-> a, carry |-> c]
    ELSE LET t == a[i] + b[i] + c
         IN  AddFrom([a EXCEPT ![i] = t % LimbBase], b, t \div LimbBase, i + 1)

Complement(u) == [i \in 1..Len(u) |-> LimbBase - 1 - u[i]]

wrapping_add(a, b) == AddFrom(a, b, 0, 1).u

wrapping_neg(u) == AddFrom(Complement(u), Zero(Len(u)), 1, 1).u

wrapping_sub(a, b) == AddFrom(a, Complement(b), 1, 1).u

\* a < b for limb sequences of equal length.
RECURSIVE LessFrom(_, _, _)
LessFrom(a, b, i) ==
    IF i = 0 THEN FALSE
    ELSE IF a[i] # b[i] THEN a[i] < b[i]
    ELSE LessFrom(a, b, i - 1)

Less(a, b) == LessFrom(a, b, Len(a))

Leq(a, b) == a = b \/ Less(a, b)

Widen(u, n) == [i \in 1..n |-> IF i <= Len(u) THEN u[i] ELSE 0]

\* 2^k as n limbs.
PowerOfTwo(k, n) == [i \in 1..n |-> IF i = (k \div 16) + 1 THEN 2^(k % 16) ELSE 0]

\* A small natural as n limbs.
Small(x, n) == [i \in 1..n |-> IF i = 1 THEN x ELSE 0]

\* iNN::max_value() as uNN, iNN::min_value() as its bit pattern.
int_max_value(w) == wrapping_sub(PowerOfTwo(w - 1, NumLimbs(w)), Small(1, NumLimbs(w)))

int_min_value(w) == PowerOfTwo(w - 1, NumLimbs(w))

\* u divided by the small number d, limb by limb from the top.
RECURSIVE DivSmallFrom(_, _, _, _)
DivSmallFrom(u, d, rem, i) ==
    IF i = 0 THEN [q |-> u, rem |-> rem]
    ELSE LET t == rem * LimbBase + u[i]
         IN  DivSmallFrom([u EXCEPT ![i] = t \div d], d, t % d, i - 1)

DivSmall(u, d) == DivSmallFrom(u, d, 0, Len(u))

\* The number of bits of a natural below LimbBase, and of a limb sequence.
RECURSIVE SmallBitLen(_)
SmallBitLen(x) == IF x = 0 THEN 0 ELSE 1 + SmallBitLen(x \div 2)

RECURSIVE TopLimb(_, _)
TopLimb(u, i) == IF i = 0 \/ u[i] # 0 THEN i ELSE TopLimb(u, i - 1)

BitLenAt(u, i) == IF i = 0 THEN 0 ELSE 16 * (i - 1) + SmallBitLen(u[i])

BitLen(u) == BitLenAt(u, TopLimb(u, Len(u)))

\* u * 2^k: whole limbs first, the bits of a limb after; the limbs are wide
\* enough to hold it.
ShiftLimbsLeft(u, w) == SubSeq(Zero(w) \o u, 1, Len(u))

ShiftLeft(u, k) == MulAdd(ShiftLimbsLeft(u, k \div 16), 2^(k % 16), 0).u

\* u \div 2^k, with sticky telling whether a bit that was set has been dropped.
ShiftLimbsRight(u, w) == SubSeq(u \o Zero(w), w + 1, w + Len(u))

Shifted(d, sticky) == [q |-> d.q, sticky |-> sticky \/ d.rem # 0]

ShiftRight(u, k, sticky) ==
    Shifted(DivSmall(ShiftLimbsRight(u, k \div 16), 2^(k % 16)),
            sticky \/ \E i \in 1..Len(u) : i <= k \div 16 /\ u[i] # 0)

\* The quotient d.q of a halving with its remainder, rounded to nearest, ties
\* to even; sticky tells of bits dropped before.
HalfUp(d, sticky) ==
    IF d.rem = 1 /\ (sticky \/ d.q[1] % 2 = 1)
    THEN wrapping_add(d.q, Small(1, Len(d.q)))
    ELSE d.q

RoundedHalf(h) == HalfUp(DivSmall(h.q, 2), h.sticky)

\* u / 2^k rounded to nearest, ties to even (k >= 1).
ShiftRightEven(u, k) == RoundedHalf(ShiftRight(u, k - 1, FALSE))

(***************************************************************************)
(* Binary floating point.  A value of f32 or f64 is a NaN, an infinity or  *)
(* the number m * 2^e, m odd or zero, with its sign.                       *)
(***************************************************************************)
\* The precision, the exponent of the least subnormal and of the greatest
\* power of two of f32 and f64.
FloatFormat(ty) ==
    IF ty = "f32" THEN [ty |-> "f32", p |-> 24, emin |-> -149, emax |-> 127]
    ELSE [ty |-> "f64", p |-> 53, emin |-> -1074, emax |-> 1023]

FNan(neg) == [class |-> "Nan", neg |-> neg]

FInf(neg) == [class |-> "Inf", neg |-> neg]

FZero(neg) == [class |-> "Val", neg |-> neg, m |-> <<0>>, e |-> 0]

\* The limbs of u up to its top limb (one limb at least).
TrimmedAt(u, top) == SubSeq(u, 1, IF top = 0 THEN 1 ELSE top)

Trimmed(u) == TrimmedAt(u, TopLimb(u, Len(u)))

\* The number of zero bits below the lowest set bit of a nonzero number.
RECURSIVE SmallTrailingZeros(_)
SmallTrailingZeros(x) == IF x % 2 = 1 THEN 0 ELSE 1 + SmallTrailingZeros(x \div 2)

RECURSIVE TrailingZeros(_, _)
TrailingZeros(u, i) ==
    IF u[i] # 0 THEN 16 * (i - 1) + SmallTrailingZeros(u[i]) ELSE TrailingZeros(u, i + 1)

\* m * 2^e with m made odd: the one way a number is written.
Odd(neg, m, e, zeros) ==
    [class |-> "Val", neg |-> neg, m |-> Trimmed(ShiftRight(m, zeros, FALSE).q),
     e |-> e + zeros]

CanonicalBits(neg, m, e, bits) ==
    IF bits = 0 THEN FZero(neg) ELSE Odd(neg, m, e, TrailingZeros(m, 1))

Canonical(neg, m, e) == CanonicalBits(neg, m, e, BitLen(m))

\* The float m * 2^e, m of the given number of bits having its bits at or above
\* the place the format rounds at: an infinity when it is beyond the greatest
\* finite value.
FiniteBits(fmt, neg, m, e, bits) ==
    IF bits # 0 /\ e + bits - 1 > fmt.emax THEN FInf(neg)
    ELSE CanonicalBits(neg, m, e, bits)

Finite(fmt, neg, m, e) == FiniteBits(fmt, neg, m, e, BitLen(m))

\* The exponent of the last bit the format keeps of a number of the given
\* number of bits times 2^e.
LastPlace(fmt, bits, e) ==
    IF e + bits - fmt.p > fmt.emin THEN e + bits - fmt.p ELSE fmt.emin

RoundedAt(fmt, neg, m, e, last) ==
    Finite(fmt, neg, IF last <= e THEN m ELSE ShiftRightEven(m, last - e),
           IF last <= e THEN e ELSE last)

\* The number m * 2^e rounded to the format: to nearest, ties to even.
Rounded(fmt, neg, m, e) == RoundedAt(fmt, neg, m, e, LastPlace(fmt, BitLen(m), e))

\* a * 2^k in the format: `a * 16.0`, `a * (2.0).powi(k)` for a finite power.
Scaled(fmt, a, k) ==
    IF a.class # "Val" THEN a ELSE Rounded(fmt, a.neg, Widen(a.m, Len(a.m) + 1), a.e + k)

\* lo + hi for two numbers of one sign, the exponent of lo the lesser, in n limbs.
Aligned(fmt, lo, hi, n) ==
    Rounded(fmt, lo.neg,
            wrapping_add(Widen(lo.m, n), ShiftLeft(Widen(hi.m, n), hi.e - lo.e)), lo.e)

SumOfNumbers(fmt, a, b, swap) ==
    Aligned(fmt, IF swap THEN b ELSE a, IF swap THEN a ELSE b,
            Len(a.m) + Len(b.m) + (IF swap THEN a.e - b.e ELSE b.e - a.e) \div 16 + 2)

\* a + b in the format, for a and b of one sign.
Sum(fmt, a, b) ==
    IF a.class = "Nan" \/ b.class = "Nan" THEN FNan(FALSE)
    ELSE IF a.class = "Inf" THEN a
    ELSE IF b.class = "Inf" THEN b
    ELSE SumOfNumbers(fmt, a, b, a.e > b.e)

IsZero(a) == a.class = "Val" /\ a.m = <<0>>

\* a * b in the format where b is a power of two, an infinity or zero.  Zero
\* times infinity is a NaN.
Product(fmt, a, b) ==
    IF a.class = "Nan" \/ b.class = "Nan" THEN FNan(FALSE)
    ELSE IF a.class = "Inf" \/ b.class = "Inf"
    THEN IF IsZero(a) \/ IsZero(b) THEN FNan(TRUE) ELSE FInf(a.neg # b.neg)
    ELSE IF IsZero(b) THEN FZero(a.neg # b.neg)
    ELSE Scaled(fmt, [a EXCEPT !.neg = a.neg # b.neg], b.e)

\* u / step in the format, u a digit and step a power of 16 or an infinity.
Quotient(fmt, u, step) ==
    IF step.class = "Inf" THEN FZero(FALSE)
    ELSE Rounded(fmt, FALSE, <<u, 0>>, 0 - step.e)

\* (2.0 as fNN).powi(i): the product of the squares of 2.0 the bits of |i| select,
\* and its reciprocal for a negative i; a product beyond the greatest finite
\* value is an infinity, whose reciprocal is zero.
powi(fmt, i) ==
    IF i > fmt.emax THEN FInf(FALSE)
    ELSE IF i < 0 - fmt.emax THEN FZero(FALSE)
    ELSE [class |-> "Val", neg |-> FALSE, m |-> <<1>>, e |-> i]

\* Sign::apply
apply(sign, f) == IF sign = "Minus" THEN [f EXCEPT !.neg = ~f.neg] ELSE f

\* u * 10^t and u / 10^k, the latter with the sticky flag of what was dropped.
RECURSIVE TimesTen(_, _)
TimesTen(u, t) ==
    IF t <= 4 THEN MulAdd(u, 10^t, 0).u
    ELSE TimesTen(TimesTen(u, t \div 2), t - t \div 2)

RECURSIVE OverTen(_, _)
OverTen(r, k) ==
    IF k <= 4 THEN Shifted(DivSmall(r.q, 10^k), r.sticky)
    ELSE OverTen(OverTen(r, k \div 2), k - k \div 2)

\* D / 10^k as a number of at least p + 3 bits times 2^(-4k - p - 5): the
\* quotient of D * 2^(4k + p + 3) with two bits more, the last one sticky.
WithSticky(r) == MulAdd(r.q, 4, IF r.sticky THEN 1 ELSE 0).u

Divided(fmt, D, k) ==
    WithSticky(OverTen([q |-> ShiftLeft(Widen(D, Len(D) + (fmt.p + 4 * k) \div 16 + 2),
                                        fmt.p + 3 + 4 * k),
                        sticky |-> FALSE], k))

\* The decimal number D * 10^t in the format, correctly rounded; digits is the
\* number of digits D was written with.  Beyond 10^310 every format overflows,
\* below 10^-330 every format underflows to zero.
DecimalValue(fmt, D, digits, t) ==
    IF D = Zero(Len(D)) THEN FZero(FALSE)
    ELSE IF t > 310 THEN FInf(FALSE)
    ELSE IF digits + t < -330 THEN FZero(FALSE)
    ELSE Rounded(fmt, FALSE,
                 IF t >= 0 THEN TimesTen(Widen(D, Len(D) + t \div 4 + 1), t)
                 ELSE Divided(fmt, D, 0 - t),
                 IF t >= 0 THEN 0 ELSE 4 * t - fmt.p - 5)

(***************************************************************************)
(* Characters.                                                             *)
(***************************************************************************)
\* char::to_digit
to_digit(c, radix) ==
    LET d == IF c >= 48 /\ c <= 57 THEN c - 48
             ELSE IF c >= 97 /\ c <= 122 THEN c - 97 + 10
             ELSE IF c >= 65 /\ c <= 90 THEN c - 65 + 10
             ELSE radix
    IN  IF d < radix THEN d ELSE -1

\* str::replace('_', "")
RECURSIVE replace_underscore(_)
replace_underscore(s) ==
    IF s = <<>> THEN <<>>
    ELSE IF Head(s) = 95 THEN replace_underscore(Tail(s))
    ELSE <<Head(s)>> \o replace_underscore(Tail(s))

\* uNN::from_str_radix and str::parse::<uNN>: checked digit-by-digit accumulation.
RECURSIVE FromStrRadixFrom(_, _, _, _)
FromStrRadixFrom(s, radix, acc, i) ==
    IF i > Len(s) THEN [ok |-> TRUE, u |-> acc]
    ELSE LET d == to_digit(s[i], radix)
         IN  IF d < 0 THEN [ok |-> FALSE, err |-> "InvalidDigit"]
             ELSE LET r == MulAdd(acc, radix, d)
                  IN  IF r.carry # 0 THEN [ok |-> FALSE, err |-> "PosOverflow"]
                      ELSE FromStrRadixFrom(s, radix, r.u, i + 1)

\* from_str_radix as it would be with wrapping arithmetic: the carry is dropped.
RECURSIVE WrappingFromStrRadixFrom(_, _, _, _)
WrappingFromStrRadixFrom(s, radix, acc, i) ==
    IF i > Len(s) THEN [ok |-> TRUE, u |-> acc]
    ELSE LET d == to_digit(s[i], radix)
         IN  IF d < 0 THEN [ok |-> FALSE, err |-> "InvalidDigit"]
             ELSE WrappingFromStrRadixFrom(s, radix, MulAdd(acc, radix, d).u, i + 1)

from_str_radix_wrapping(s, radix, w) ==
    IF s = <<>> THEN [ok |-> FALSE, err |-> "Empty"]
    ELSE WrappingFromStrRadixFrom(s, radix, Zero(NumLimbs(w)), 1)

\* An unsigned from_str_radix accepts one leading '+'.
from_str_radix(s, radix, w) ==
    IF s = <<>> THEN [ok |-> FALSE, err |-> "Empty"]
    ELSE IF s = <<43>> THEN [ok |-> FALSE, err |-> "InvalidDigit"]
    ELSE FromStrRadixFrom(IF Head(s) = 43 THEN Tail(s) ELSE s, radix,
                          Zero(NumLimbs(w)), 1)

(***************************************************************************)
(* Results, errors, the lookahead buffer.                                  *)
(***************************************************************************)
Ok(v, p) == [ok |-> TRUE, v |-> v, p |-> p]

Err(e, p) == [ok |-> FALSE, e |-> e, p |-> p]

\* What the caller of a parsing function is returned.
Returned(r) == IF r.ok THEN [ok |-> TRUE, v |-> r.v] ELSE [ok |-> FALSE, e |-> r.e]

\* The `?` operator: an Err returns at once, an Ok value goes on into rest.
Then(r, rest(_)) == IF r.ok THEN rest(r) ELSE r

\* Error::new: a fresh error has no previous error.
Error_new(kind, pos) == [kind |-> kind, pos |-> pos, prev_error |-> None]

\* The From conversions behind `?` and `.into()`: they see the foreign error only.
Error_from(kind, e) == Error_new([k |-> kind, err |-> e.err], e.pos)

\* LookAhead<Lexer>: the items the lexer yields and the index of the next one.
LookAhead_new(items) == [items |-> items, at |-> 1]

LookAhead_peek(la) == IF la.at <= Len(la.items) THEN la.items[la.at] ELSE None

LookAhead_lookahead(la) ==
    IF la.at + 1 <= Len(la.items) THEN la.items[la.at + 1] ELSE None

LookAhead_next(la) ==
    IF la.at <= Len(la.items)
    THEN [item |-> la.items[la.at], la |-> [la EXCEPT !.at = la.at + 1]]
    ELSE [item |-> None, la |-> la]

empty_lexer == LookAhead_new(<<>>)

(***************************************************************************)
(* Parser.                                                                 *)
(***************************************************************************)
Parser_new(source) ==
    [source |-> source,
     tokens |-> LookAhead_new(source.items),
     current_pos |-> 0,
     ignored_error |-> None]

clone_lexer(p) == p.tokens

replace_lexer(p, new) == [p EXCEPT !.tokens = new]

\* The match of consume() on the item tokens.next() gave; q has the lexer stepped.
consumed(q, item) ==
    IF item = None THEN Ok(None, [q EXCEPT !.current_pos = q.source.len])
    ELSE IF item.ok THEN Ok(item.tok, [q EXCEPT !.current_pos = item.off])
    ELSE Err(Error_from("Lex", item), q)

consume(p) ==
    consumed(replace_lexer(p, LookAhead_next(p.tokens).la), LookAhead_next(p.tokens).item)

\* The two matches of peek() on the items tokens.peek() and tokens.lookahead() gave.
peeked(p, i1, i2) ==
    IF i1 # None /\ ~i1.ok THEN Err(Error_from("Lex", i1), p)
    ELSE IF i2 # None /\ ~i2.ok THEN Err(Error_from("Lex", i2), p)
    ELSE Ok(<<IF i1 = None THEN None ELSE i1.tok,
              IF i2 = None THEN None ELSE i2.tok>>, p)

peek(p) == peeked(p, LookAhead_peek(p.tokens), LookAhead_lookahead(p.tokens))

is_done(p) == Then(peek(p), LAMBDA r : Ok(r.v[1] = None, p))

\* Parser::error without `ignored.prev_error = None`.
error_chaining(p, kind) ==
    IF p.ignored_error # None
    THEN [err |-> [Error_new(kind, p.current_pos) EXCEPT !.prev_error = p.ignored_error],
          p |-> [p EXCEPT !.ignored_error = None]]
    ELSE [err |-> Error_new(kind, p.current_pos), p |-> p]

\* Parser::error: the ignored error is taken, unchained and linked.
error(p, kind) ==
    IF p.ignored_error # None
    THEN [err |-> [Error_new(kind, p.current_pos) EXCEPT !.prev_error =
                       [p.ignored_error EXCEPT !.prev_error = None]],
          p |-> [p EXCEPT !.ignored_error = None]]
    ELSE [err |-> Error_new(kind, p.current_pos), p |-> p]

Failed(r) == Err(r.err, r.p)

fail(p, kind) == Failed(error(p, kind))

unexpected(p, expected) ==
    fail(p, [k |-> "Unexpected", expected |-> expected, token |-> None])

unexpected_token(p, token, expected) ==
    fail(p, [k |-> "Unexpected", expected |-> expected, token |-> token])

\* expect!(parser, Token::X): consume, and fail on any other token.
expect(p, t, expected) ==
    Then(consume(p), LAMBDA r :
        IF r.v.t = t THEN r ELSE unexpected_token(r.p, r.v, expected))

parse_start(p, directive) ==
    Then(consume(p), LAMBDA l :
        IF l.v.t = "LParen"
        THEN Then(consume(l.p), LAMBDA x :
                 IF x.v.t = "Keyword" /\ x.v.s = directive
                 THEN Ok(l.p.current_pos, x.p)
                 ELSE unexpected_token(x.p, x.v, <<"keyword for", directive>>))
        ELSE unexpected_token(l.p, l.v, <<"'(' for", directive>>))

\* The identifier is stepped over with tokens.next(): current_pos is not touched.
parse_maybe_id(p) ==
    Then(peek(p), LAMBDA r :
        IF r.v[1].t = "Ident"
        THEN Ok(r.v[1].s, replace_lexer(p, LookAhead_next(p.tokens).la))
        ELSE Ok(None, p))

(***************************************************************************)
(* Escape decoder.                                                         *)
(***************************************************************************)
\* encode_utf8 as `c as u8`: the low byte of the character.
encode_utf8_low_byte(c) == <<c % 256>>

\* char::encode_utf8
encode_utf8(c) ==
    IF c < 128 THEN <<c>>
    ELSE IF c < 2048 THEN <<192 + (c \div 64), 128 + (c % 64)>>
    ELSE IF c < 65536
    THEN <<224 + (c \div 4096), 128 + ((c \div 64) % 64), 128 + (c % 64)>>
    ELSE <<240 + (c \div 262144), 128 + ((c \div 4096) % 64),
           128 + ((c \div 64) % 64), 128 + (c % 64)>>

\* char::from_u32 on the two limbs of a u32: the scalar value, or -1.
char_from_u32(u) ==
    IF u[2] > 16 \/ (u[2] = 0 /\ u[1] >= 55296 /\ u[1] <= 57343) THEN -1
    ELSE u[2] * LimbBase + u[1]

\* u32::from_str_radix(.., 16).ok().and_then(char::from_u32): the scalar, or -1.
code_point(parsed) == IF parsed.ok THEN char_from_u32(parsed.u) ELSE -1

IsCont(b) == b >= 128 /\ b <= 191

\* String::from_utf8: TRUE when the bytes from the i-th on are well-formed UTF-8.
RECURSIVE utf8_valid_from(_, _)
utf8_valid_from(b, i) ==
    IF i > Len(b) THEN TRUE
    ELSE IF b[i] < 128 THEN utf8_valid_from(b, i + 1)
    ELSE IF b[i] >= 194 /\ b[i] <= 223
    THEN i + 1 <= Len(b) /\ IsCont(b[i + 1]) /\ utf8_valid_from(b, i + 2)
    ELSE IF b[i] >= 224 /\ b[i] <= 239
    THEN /\ i + 2 <= Len(b)
         /\ IsCont(b[i + 1]) /\ IsCont(b[i + 2])
         /\ (b[i] = 224 => b[i + 1] >= 160)
         /\ (b[i] = 237 => b[i + 1] <= 159)
         /\ utf8_valid_from(b, i + 3)
    ELSE IF b[i] >= 240 /\ b[i] <= 244
    THEN /\ i + 3 <= Len(b)
         /\ IsCont(b[i + 1]) /\ IsCont(b[i + 2]) /\ IsCont(b[i + 3])
         /\ (b[i] = 240 => b[i + 1] >= 144)
         /\ (b[i] = 244 => b[i + 1] <= 143)
         /\ utf8_valid_from(b, i + 4)
    ELSE FALSE

from_utf8(b) == utf8_valid_from(b, 1)

InvalidStringLiteral(s, reason) ==
    [k |-> "InvalidStringLiteral", lit |-> s, reason |-> reason]

\* The index of the first '}' of s at or after i, or 0.
RECURSIVE find_close(_, _)
find_close(s, i) ==
    IF i > Len(s) THEN 0
    ELSE IF s[i] = 125 THEN i
    ELSE find_close(s, i + 1)

\* One turn of the `while let` of parse_escaped on the i-th character: what it
\* pushes and the index it leaves the iterator at, or the reason it fails for.
escape_step(s, i) ==
    IF s[i] # 92 THEN [ok |-> TRUE, bytes |-> encode_utf8(s[i]), next |-> i + 1]
    \* the lexer guarantees that one character follows the backslash
    ELSE IF s[i + 1] = 116 THEN [ok |-> TRUE, bytes |-> <<9>>, next |-> i + 2]
    ELSE IF s[i + 1] = 110 THEN [ok |-> TRUE, bytes |-> <<10>>, next |-> i + 2]
    ELSE IF s[i + 1] = 114 THEN [ok |-> TRUE, bytes |-> <<13>>, next |-> i + 2]
    ELSE IF s[i + 1] = 34 THEN [ok |-> TRUE, bytes |-> <<34>>, next |-> i + 2]
    ELSE IF s[i + 1] = 39 THEN [ok |-> TRUE, bytes |-> <<39>>, next |-> i + 2]
    ELSE IF s[i + 1] = 92 THEN [ok |-> TRUE, bytes |-> <<92>>, next |-> i + 2]
    ELSE IF s[i + 1] = 117
    THEN IF i + 2 <= Len(s) /\ s[i + 2] = 123
         THEN IF find_close(s, i + 3) = 0
              THEN [ok |-> FALSE, reason |-> "invalid \\u{xxxx} format"]
              ELSE IF code_point(from_str_radix(
                          SubSeq(s, i + 3, find_close(s, i + 3) - 1), 16, 32)) >= 0
              THEN [ok |-> TRUE,
                    bytes |-> encode_utf8(code_point(from_str_radix(
                                  SubSeq(s, i + 3, find_close(s, i + 3) - 1), 16, 32))),
                    next |-> find_close(s, i + 3) + 1]
              ELSE [ok |-> FALSE, reason |-> "invalid code point in \\u{xxxx}"]
         ELSE [ok |-> FALSE, reason |-> "invalid \\u{xxxx} format"]
    ELSE IF to_digit(s[i + 1], 16) >= 0 /\ i + 2 <= Len(s) /\ to_digit(s[i + 2], 16) >= 0
    THEN [ok |-> TRUE,
          bytes |-> <<(to_digit(s[i + 1], 16) * 16 + to_digit(s[i + 2], 16)) % 256>>,
          next |-> i + 3]
    ELSE [ok |-> FALSE, reason |-> "invalid \\XX format"]

RECURSIVE parse_escaped_from(_, _, _, _)
escaped(p, s, buf, step) ==
    IF step.ok THEN parse_escaped_from(p, s, step.next, buf \o step.bytes)
    ELSE fail(p, InvalidStringLiteral(s, step.reason))

parse_escaped_from(p, s, i, buf) ==
    IF i > Len(s) THEN Ok(buf, p) ELSE escaped(p, s, buf, escape_step(s, i))

parse_escaped(p, s) == parse_escaped_from(p, s, 1, <<>>)

\* parse_escaped_text without the check of String::from_utf8.
parse_escaped_text_unchecked(p, s) == parse_escaped(p, s)

\* A String is held as its UTF-8 bytes.
parse_escaped_text(p, s) ==
    Then(parse_escaped(p, s), LAMBDA r :
        IF from_utf8(r.v) THEN r ELSE fail(r.p, [k |-> "Utf8Error", bytes |-> r.v]))

\* Parse {string}
String_parse(p) ==
    Then(expect(p, "String", "Token::String(s)"), LAMBDA r :
        parse_escaped_text(r.p, r.v.s))

(***************************************************************************)
(* (module quote ...) and (module binary ...)                              *)
(***************************************************************************)
\* The loop as it would be were each string put before the earlier ones.
RECURSIVE embedded_loop_prepend(_, _, _)
embedded_loop_prepend(p, kw, acc) ==
    Then(consume(p), LAMBDA r :
        IF r.v.t = "String"
        THEN Then(IF kw = "quote" THEN parse_escaped_text(r.p, r.v.s)
                  ELSE parse_escaped(r.p, r.v.s),
                  LAMBDA d : embedded_loop_prepend(d.p, kw, d.v \o acc))
        ELSE IF r.v.t = "RParen" THEN Ok(acc, r.p)
        ELSE unexpected_token(r.p, r.v,
                 IF kw = "quote" THEN "string for module quote or ')'"
                 ELSE "string for module binary or ')'"))

\* The `loop` of an embedded module: strings up to the closing ')'.
RECURSIVE embedded_loop(_, _, _)
embedded_loop(p, kw, acc) ==
    Then(consume(p), LAMBDA r :
        IF r.v.t = "String"
        THEN Then(IF kw = "quote" THEN parse_escaped_text(r.p, r.v.s)
                  ELSE parse_escaped(r.p, r.v.s),
                  LAMBDA d : embedded_loop(d.p, kw, acc \o d.v))
        ELSE IF r.v.t = "RParen" THEN Ok(acc, r.p)
        ELSE unexpected_token(r.p, r.v,
                 IF kw = "quote" THEN "string for module quote or ')'"
                 ELSE "string for module binary or ')'"))

\* ID like (module $m quote ...): skipped with tokens.next().
skip_id(p) ==
    Then(peek(p), LAMBDA r :
        IF r.v[1].t = "Ident"
        THEN Ok(None, replace_lexer(p, LookAhead_next(p.tokens).la))
        ELSE Ok(None, p))

EmbeddedModule_parse(p) ==
    Then(parse_start(p, "module"), LAMBDA start :
    Then(skip_id(start.p), LAMBDA id :
    Then(consume(id.p), LAMBDA kw :
        IF kw.v.t = "Keyword" /\ kw.v.s \in {"quote", "binary"}
        THEN Then(embedded_loop(kw.p, kw.v.s, <<>>), LAMBDA body :
                 Ok([start |-> start.v,
                     embedded |-> [k |-> IF kw.v.s = "quote" THEN "Quote" ELSE "Binary",
                                   data |-> body.v]], body.p))
        ELSE unexpected_token(kw.p, kw.v,
                 "Token::Keyword(kw) if kw == \"quote\" || kw == \"binary\""))))

(***************************************************************************)
(* Scalar decoder.                                                         *)
(***************************************************************************)
\* The `match parsed` of parse_int_fn with the arm for iNN::max_value() + 1 left out.
int_of_parsed_no_min(w, p, sign, parsed) ==
    IF parsed.ok /\ sign = "Plus" THEN Ok(parsed.u, p)
    ELSE IF parsed.ok /\ Leq(parsed.u, int_max_value(w))
    THEN Ok(wrapping_neg(parsed.u), p)
    ELSE IF parsed.ok
    THEN fail(p, [k |-> "TooSmallInt", ty |-> IF w = 32 THEN "i32" ELSE "i64",
                  digits |-> Widen(parsed.u, 4)])
    ELSE fail(p, [k |-> "InvalidInt", ty |-> IF w = 32 THEN "i32" ELSE "i64",
                  err |-> parsed.err])

\* The `match parsed` of parse_int_fn.  An iNN is held as its bit pattern.
int_of_parsed(w, p, sign, parsed) ==
    IF parsed.ok /\ sign = "Plus" THEN Ok(parsed.u, p)
    ELSE IF parsed.ok
            /\ parsed.u = wrapping_add(int_max_value(w), Small(1, NumLimbs(w)))
    THEN Ok(int_min_value(w), p)
    ELSE IF parsed.ok /\ Leq(parsed.u, int_max_value(w))
    THEN Ok(wrapping_neg(parsed.u), p)
    ELSE IF parsed.ok
    THEN fail(p, [k |-> "TooSmallInt", ty |-> IF w = 32 THEN "i32" ELSE "i64",
                  digits |-> Widen(parsed.u, 4)])
    ELSE fail(p, [k |-> "InvalidInt", ty |-> IF w = 32 THEN "i32" ELSE "i64",
                  err |-> parsed.err])

\* parse_int_fn!($name, iNN, uNN) at width w.
parse_int_fn(w, p, sign, base, digits) ==
    int_of_parsed(w, p, sign,
        IF base = "Hex" THEN from_str_radix(replace_underscore(digits), 16, w)
        ELSE from_str_radix(replace_underscore(digits), 10, w))

parse_i32(p, sign, base, digits) == parse_int_fn(32, p, sign, base, digits)

parse_i64(p, sign, base, digits) == parse_int_fn(64, p, sign, base, digits)

\* `i64 as fNN`: the integer the bit pattern denotes, rounded to the format.
int_as_float(fmt, bits) ==
    Rounded(fmt, bits[Len(bits)] >= LimbBase \div 2,
            IF bits[Len(bits)] >= LimbBase \div 2 THEN wrapping_neg(bits) ELSE bits, 0)

\* A short decimal digit string as a number, saturating at 100000.
RECURSIVE SmallDecimal(_, _)
SmallDecimal(s, acc) ==
    IF s = <<>> THEN acc
    ELSE SmallDecimal(Tail(s), IF acc * 10 + Head(s) - 48 > 100000 THEN 100000
                               ELSE acc * 10 + Head(s) - 48)

IsDigits(s) == \A i \in 1..Len(s) : s[i] \in 48..57

\* The index of the first c of s, Len(s) + 1 when there is none.
RECURSIVE IndexOf(_, _, _)
IndexOf(s, c, i) == IF i > Len(s) \/ s[i] = c THEN i ELSE IndexOf(s, c, i + 1)

UpTo(s, i) == SubSeq(s, 1, i - 1)

Past(s, i) == SubSeq(s, i + 1, Len(s))

\* The exponent of a decimal float text: its part after 'E', signed.
DecimalExponent(x) ==
    IF x # <<>> /\ Head(x) = 45 THEN 0 - SmallDecimal(Tail(x), 0)
    ELSE SmallDecimal(x, 0)

\* The number of the decimal text with the digits int before the point, frac
\* after it, and the exponent text x (empty without 'E').
decimal_number(fmt, int, frac, has_exp, x) ==
    IF \/ ~IsDigits(int \o frac)
       \/ int \o frac = <<>>
       \/ has_exp /\ (x \in {<<>>, <<45>>} \/ ~IsDigits(IF Head(x) = 45 THEN Tail(x) ELSE x))
    THEN [ok |-> FALSE, err |-> "Invalid"]
    ELSE [ok |-> TRUE,
          f |-> DecimalValue(fmt,
                    FromStrRadixFrom(int \o frac, 10, Zero(Len(int \o frac) \div 4 + 1), 1).u,
                    Len(int \o frac), DecimalExponent(x) - Len(frac))]

decimal_mantissa(fmt, m, dot, has_exp, x) ==
    decimal_number(fmt, UpTo(m, dot), Past(m, dot), has_exp, x)

decimal_parts(fmt, s, e) ==
    decimal_mantissa(fmt, UpTo(s, e), IndexOf(UpTo(s, e), 46, 1), e <= Len(s), Past(s, e))

\* str::parse::<fNN> of a text of digits, an optional point and an optional
\* exponent: the correctly rounded value, or the error of a text that is no number.
parse_float(fmt, s) == decimal_parts(fmt, s, IndexOf(s, 69, 1))

\* The text the decimal branch of parse_float_fn builds from frac and exp.
decimal_text(frac, exp) ==
    replace_underscore(frac)
    \o (IF exp = None THEN <<>>
        ELSE <<69>> \o (IF exp.sign = "Minus" THEN <<45>> ELSE <<>>)
             \o replace_underscore(exp.digits))

\* The `match s.parse::<$ty>()` of the decimal branch.
decimal_parsed(fmt, p, sign, parsed) ==
    IF parsed.ok THEN Ok(apply(sign, parsed.f), p)
    ELSE fail(p, [k |-> "InvalidFloat", ty |-> fmt.ty, err |-> parsed.err])

\* A hexadecimal digit as a float.
digit_as_float(u) == [class |-> "Val", neg |-> FALSE, m |-> <<u>>, e |-> 0]

\* The first loop of the hex branch: the digits before the point.
RECURSIVE hex_integer(_, _, _, _)
hex_integer(fmt, s, i, f) ==
    IF i > Len(s) THEN [ok |-> TRUE, f |-> f, i |-> i]
    ELSE IF to_digit(s[i], 16) >= 0
    THEN hex_integer(fmt, s, i + 1,
             Sum(fmt, Scaled(fmt, f, 4), digit_as_float(to_digit(s[i], 16))))
    ELSE IF s[i] = 46 THEN [ok |-> TRUE, f |-> f, i |-> i + 1]
    ELSE IF s[i] = 95 THEN hex_integer(fmt, s, i + 1, f)
    ELSE [ok |-> FALSE]

\* The second loop: the digits after the point, each divided by step.
RECURSIVE hex_fraction(_, _, _, _, _)
hex_fraction(fmt, s, i, f, step) ==
    IF i > Len(s) THEN [ok |-> TRUE, f |-> f]
    ELSE IF to_digit(s[i], 16) >= 0
    THEN hex_fraction(fmt, s, i + 1, Sum(fmt, f, Quotient(fmt, to_digit(s[i], 16), step)),
                      Scaled(fmt, step, 4))
    ELSE IF s[i] = 95 THEN hex_fraction(fmt, s, i + 1, f, step)
    ELSE [ok |-> FALSE]

\* The i32 of a parsed u32 that does not exceed i32::max_value().
exponent_of_parsed(parsed) ==
    IF parsed.ok /\ parsed.u[2] < LimbBase \div 2
    THEN [ok |-> TRUE, i |-> parsed.u[2] * LimbBase + parsed.u[1]]
    ELSE [ok |-> FALSE]

\* `digits.replace('_', "").parse::<i32>()` of an unsigned digit string.
parse_exponent(digits) == exponent_of_parsed(from_str_radix(replace_underscore(digits), 10, 32))

\* `f *= (2.0 as $ty).powi(i)` for the parsed exponent, and the sign.
hex_powered(fmt, p, sign, f, exp_sign, parsed) ==
    IF ~parsed.ok THEN fail(p, [k |-> "InvalidHexFloat", ty |-> fmt.ty])
    ELSE Ok(apply(sign, Product(fmt, f,
                powi(fmt, IF exp_sign = "Minus" THEN 0 - parsed.i ELSE parsed.i))), p)

\* The end of the hex branch: f times 2.0 to the exponent, with the sign.
hex_scaled(fmt, p, sign, f, exp) ==
    IF exp = None THEN Ok(apply(sign, f), p)
    ELSE hex_powered(fmt, p, sign, f, exp.sign, parse_exponent(exp.digits))

hex_fractioned(fmt, p, sign, exp, frac) ==
    IF ~frac.ok THEN fail(p, [k |-> "InvalidHexFloat", ty |-> fmt.ty])
    ELSE hex_scaled(fmt, p, sign, frac.f, exp)

hex_fractional(fmt, p, sign, frac, exp, int) ==
    IF ~int.ok THEN fail(p, [k |-> "InvalidHexFloat", ty |-> fmt.ty])
    ELSE hex_fractioned(fmt, p, sign, exp,
             hex_fraction(fmt, frac, int.i, int.f, [class |-> "Val", neg |-> FALSE, m |-> <<1>>, e |-> 4]))

\* parse_float_fn!($name, fNN) for the format fmt.
parse_float_fn(fmt, p, sign, base, frac, exp) ==
    IF base = "Dec"
    THEN decimal_parsed(fmt, p, sign, parse_float(fmt, decimal_text(frac, exp)))
    ELSE hex_fractional(fmt, p, sign, frac, exp, hex_integer(fmt, frac, 1, FZero(FALSE)))

\* The Float operand as it would be were the sign of an infinity dropped.
float_operand_positive_inf(p, ty, sign, f) ==
    IF f.k = "Nan" THEN Ok(apply(sign, FNan(FALSE)), p)
    ELSE IF f.k = "Inf" THEN Ok(FInf(FALSE), p)
    ELSE parse_float_fn(FloatFormat(ty), p, sign, f.base, f.frac, f.exp)

\* The Float operand x.f of f32.const / f64.const with the sign of its token;
\* a number goes to parse_f32 or parse_f64, parse_float_fn for the format.
float_operand(p, ty, sign, f) ==
    IF f.k = "Nan" THEN Ok(apply(sign, FNan(FALSE)), p)
    ELSE IF f.k = "Inf" THEN Ok(FInf(sign = "Minus"), p)
    ELSE parse_float_fn(FloatFormat(ty), p, sign, f.base, f.frac, f.exp)

\* The F32 or F64 of a float r.v at the parser r.p.
float_const(kw, r) == Ok([k |-> IF kw = "f32.const" THEN "F32" ELSE "F64", v |-> r.v], r.p)

\* The operand x of the keyword kw of a constant.
const_operand(p, kw, x) ==
    IF kw \in {"i32.const", "i64.const"}
    THEN IF x.t = "Int"
         THEN IF kw = "i32.const"
              THEN Then(parse_i32(p, x.sign, x.base, x.digits), LAMBDA r :
                       Ok([k |-> "I32", bits |-> r.v], r.p))
              ELSE Then(parse_i64(p, x.sign, x.base, x.digits), LAMBDA r :
                       Ok([k |-> "I64", bits |-> r.v], r.p))
         ELSE unexpected_token(p, x, IF kw = "i32.const" THEN "i32 value" ELSE "i64 value")
    ELSE IF x.t = "Keyword" /\ x.s = "nan:canonical" THEN Ok([k |-> "CanonicalNan"], p)
    ELSE IF x.t = "Keyword" /\ x.s = "nan:arithmetic" THEN Ok([k |-> "ArithmeticNan"], p)
    ELSE IF x.t = "Int"
    THEN Then(parse_i64(p, x.sign, x.base, x.digits), LAMBDA r :
             Ok([k |-> IF kw = "f32.const" THEN "F32" ELSE "F64",
                 v |-> int_as_float(FloatFormat(IF kw = "f32.const" THEN "f32" ELSE "f64"),
                                    r.v)], r.p))
    ELSE IF x.t = "Float"
    THEN Then(float_operand(p, IF kw = "f32.const" THEN "f32" ELSE "f64", x.sign, x.f),
              LAMBDA r : float_const(kw, r))
    ELSE unexpected_token(p, x, IF kw = "f32.const" THEN "f32 value" ELSE "f64 value")

Const_parse(p) ==
    Then(expect(p, "LParen", "Token::LParen"), LAMBDA l :
    Then(expect(l.p, "Keyword", "Token::Keyword(k)"), LAMBDA kw :
        IF kw.v.s \in {"i32.const", "i64.const", "f32.const", "f64.const"}
        THEN Then(consume(kw.p), LAMBDA x :
             Then(const_operand(x.p, kw.v.s, x.v), LAMBDA c :
             Then(expect(c.p, "RParen", "Token::RParen"), LAMBDA r : Ok(c.v, r.p))))
        ELSE unexpected(kw.p, "t.const for constant")))

(***************************************************************************)
(* Actions: invoke, register, get.                                         *)
(***************************************************************************)
\* The loop as it would be were each argument put before the earlier ones.
RECURSIVE invoke_args_prepend(_, _)
invoke_args_prepend(p, args) ==
    Then(peek(p), LAMBDA pk :
        IF pk.v[1].t = "LParen"
        THEN Then(Const_parse(p), LAMBDA c : invoke_args_prepend(c.p, <<c.v>> \o args))
        ELSE Ok(args, p))

\* The `while let (Some(Token::LParen), _) = parser.peek()?` loop of Invoke.
RECURSIVE invoke_args(_, _)
invoke_args(p, args) ==
    Then(peek(p), LAMBDA pk :
        IF pk.v[1].t = "LParen"
        THEN Then(Const_parse(p), LAMBDA c : invoke_args(c.p, Append(args, c.v)))
        ELSE Ok(args, p))

\* (invoke {id}? {name} {constant}*)
Invoke_parse(p) ==
    Then(parse_start(p, "invoke"), LAMBDA start :
    Then(parse_maybe_id(start.p), LAMBDA id :
    Then(String_parse(id.p), LAMBDA name :
    Then(invoke_args(name.p, <<>>), LAMBDA args :
    Then(expect(args.p, "RParen", "Token::RParen"), LAMBDA r :
        Ok([start |-> start.v, id |-> id.v, name |-> name.v, args |-> args.v], r.p))))))

\* register as it would be were the identifier looked for before the name.
Register_parse_id_first(p) ==
    Then(parse_start(p, "register"), LAMBDA start :
    Then(parse_maybe_id(start.p), LAMBDA id :
    Then(String_parse(id.p), LAMBDA name :
    Then(expect(name.p, "RParen", "Token::RParen"), LAMBDA r :
        Ok([start |-> start.v, name |-> name.v, id |-> id.v], r.p)))))

\* (register {name})
Register_parse(p) ==
    Then(parse_start(p, "register"), LAMBDA start :
    Then(String_parse(start.p), LAMBDA name :
    Then(parse_maybe_id(name.p), LAMBDA id :
    Then(expect(id.p, "RParen", "Token::RParen"), LAMBDA r :
        Ok([start |-> start.v, name |-> name.v, id |-> id.v], r.p)))))

\* (get {id}? {name})
GetGlobal_parse(p) ==
    Then(parse_start(p, "get"), LAMBDA start :
    Then(parse_maybe_id(start.p), LAMBDA id :
    Then(String_parse(id.p), LAMBDA name :
    Then(expect(name.p, "RParen", "Token::RParen"), LAMBDA r :
        Ok([start |-> start.v, id |-> id.v, name |-> name.v], r.p)))))

(***************************************************************************)
(* Assertions.                                                             *)
(***************************************************************************)
\* The expected constant as it would be were it never looked for.
maybe_const_absent(p) == Ok(None, p)

\* `if let (Some(Token::LParen), _) = parser.peek()? { Some(parser.parse()?) }`
maybe_const(p) ==
    Then(peek(p), LAMBDA pk :
        IF pk.v[1].t = "LParen" THEN Const_parse(p) ELSE Ok(None, p))

\* (assert_return (invoke {name} {constant}*) {constant}?)
AssertReturn_parse(p) ==
    Then(parse_start(p, "assert_return"), LAMBDA start :
    Then(peek(start.p), LAMBDA pk :
        IF pk.v[1].t = "LParen" /\ pk.v[2].t = "Keyword" /\ pk.v[2].s = "invoke"
        THEN Then(Invoke_parse(start.p), LAMBDA invoke :
             Then(maybe_const(invoke.p), LAMBDA expected :
             Then(expect(expected.p, "RParen", "Token::RParen"), LAMBDA r :
                 Ok([k |-> "Invoke", start |-> start.v, invoke |-> invoke.v,
                     expected |-> expected.v], r.p))))
        ELSE IF pk.v[1].t = "LParen" /\ pk.v[2].t = "Keyword" /\ pk.v[2].s = "get"
        THEN Then(GetGlobal_parse(start.p), LAMBDA get :
             Then(Const_parse(get.p), LAMBDA expected :
             Then(expect(expected.p, "RParen", "Token::RParen"), LAMBDA r :
                 Ok([k |-> "Global", start |-> start.v, get |-> get.v,
                     expected |-> expected.v], r.p))))
        ELSE unexpected_token(start.p,
                 IF pk.v[1].t = "LParen" THEN pk.v[2] ELSE pk.v[1],
                 "'(invoke' or '(get' for assert_return")))

\* (assert_trap (invoke {name} {constant}*) {string})
AssertTrap_parse(p) ==
    Then(parse_start(p, "assert_trap"), LAMBDA start :
    Then(Invoke_parse(start.p), LAMBDA invoke :
    Then(String_parse(invoke.p), LAMBDA expected :
    Then(expect(expected.p, "RParen", "Token::RParen"), LAMBDA r :
        Ok([start |-> start.v, invoke |-> invoke.v, expected |-> expected.v], r.p)))))

\* (assert_malformed (module ...) {string})
AssertMalformed_parse(p) ==
    Then(parse_start(p, "assert_malformed"), LAMBDA start :
    Then(EmbeddedModule_parse(start.p), LAMBDA module :
    Then(String_parse(module.p), LAMBDA expected :
    Then(expect(expected.p, "RParen", "Token::RParen"), LAMBDA r :
        Ok([start |-> start.v, module |-> module.v, expected |-> expected.v], r.p)))))

(***************************************************************************)
(* The Module Compiler: the text parser of a module and wat2wasm.  It is   *)
(* given a lookahead buffer and yields it back positioned after the module.*)
(* Its results are [ok, v, la], la being the buffer as it leaves it.       *)
(***************************************************************************)
WatFieldKeywords ==
    {"type", "import", "func", "table", "memory", "global", "export", "start",
     "elem", "data"}

ItemPos(item) == IF item.ok THEN item.off ELSE item.pos

EndPos(la) == IF la.items = <<>> THEN 0 ELSE ItemPos(la.items[Len(la.items)])

WatErr(err, pos) == [ok |-> FALSE, e |-> [err |-> err, pos |-> pos]]

WatThen(r, rest(_)) == IF r.ok THEN rest(r) ELSE r

\* The next token of the buffer, end of input and lexer failures being errors.
wat_token(la, n) ==
    IF n.item = None THEN WatErr("UnexpectedEndOfFile", EndPos(la))
    ELSE IF ~n.item.ok THEN WatErr("LexError", n.item.pos)
    ELSE [ok |-> TRUE, v |-> n.item.tok, off |-> n.item.off, la |-> n.la]

wat_next(la) == wat_token(la, LookAhead_next(la))

\* Steps over the rest of a parenthesised group, nested groups included.
RECURSIVE wat_skip(_, _)
wat_skip(la, depth) ==
    WatThen(wat_next(la), LAMBDA n :
        IF n.v.t = "LParen" THEN wat_skip(n.la, depth + 1)
        ELSE IF n.v.t = "RParen" /\ depth = 1 THEN [ok |-> TRUE, la |-> n.la]
        ELSE IF n.v.t = "RParen" THEN wat_skip(n.la, depth - 1)
        ELSE wat_skip(n.la, depth))

\* The module fields up to the ')' that closes the module.
RECURSIVE wat_fields(_, _)
wat_fields(la, fields) ==
    WatThen(wat_next(la), LAMBDA n :
        IF n.v.t = "RParen" THEN [ok |-> TRUE, v |-> fields, la |-> n.la]
        ELSE IF n.v.t = "LParen"
        THEN WatThen(wat_next(n.la), LAMBDA k :
                 IF k.v.t = "Keyword" /\ k.v.s \in WatFieldKeywords
                 THEN WatThen(wat_skip(k.la, 1), LAMBDA r :
                          wat_fields(r.la, Append(fields, k.v.s)))
                 ELSE WatErr("UnexpectedToken", k.off))
        ELSE WatErr("UnexpectedToken", n.off))

\* The optional identifier of a module.
wat_maybe_id(la, item) ==
    IF item # None /\ item.ok /\ item.tok.t = "Ident"
    THEN [ok |-> TRUE, v |-> item.tok.s, la |-> LookAhead_next(la).la]
    ELSE [ok |-> TRUE, v |-> None, la |-> la]

\* WatParser::with_lexer(lexer).parse(): '(' 'module' {id}? {field}* ')'
WatParser_parse(la) ==
    WatThen(wat_next(la), LAMBDA l :
        IF l.v.t # "LParen" THEN WatErr("UnexpectedToken", l.off)
        ELSE WatThen(wat_next(l.la), LAMBDA m :
        IF ~(m.v.t = "Keyword" /\ m.v.s = "module") THEN WatErr("UnexpectedToken", m.off)
        ELSE WatThen(wat_maybe_id(m.la, LookAhead_peek(m.la)), LAMBDA id :
             WatThen(wat_fields(id.la, <<>>), LAMBDA f :
                 [ok |-> TRUE,
                  v |-> [start |-> l.off, id |-> id.v, fields |-> f.v],
                  la |-> f.la]))))

\* wat2wasm: a module has at most one start function.
wat2wasm(parsed) ==
    IF Cardinality({i \in 1..Len(parsed.fields) : parsed.fields[i] = "start"}) > 1
    THEN WatErr("MultipleStart", parsed.start)
    ELSE [ok |-> TRUE, v |-> [module |-> parsed]]

CompileErr(kind, r) == [ok |-> FALSE, e |-> Error_from(kind, r.e)]

to_wasm(parsed, root) ==
    IF root.ok THEN [ok |-> TRUE, v |-> root.v, lexer |-> parsed.la]
    ELSE CompileErr("Wat2Wasm", root)

to_wat(parsed) ==
    IF parsed.ok THEN to_wasm(parsed, wat2wasm(parsed.v))
    ELSE CompileErr("ParseError", parsed)

\* text -> wat -> ast, then into_lexer: what both delegations run on a lexer.
compile_module(lexer) == to_wat(WatParser_parse(lexer))

\* Parser::with_lexer, r being what pred returned for the lexer rent from p:
\* `?` returns before the lexer is put back.
lexer_returned(q, r) ==
    IF r.ok THEN Ok(r.v, replace_lexer(q, r.lexer)) ELSE Err(r.e, q)

with_lexer(p, pred(_)) == lexer_returned(replace_lexer(p, empty_lexer), pred(p.tokens))

\* inline module in assert_invalid and assert_unlinkable
InlineRoot_parse(p) ==
    Then(peek(p), LAMBDA pk :
        IF pk.v[1].t = "LParen" /\ pk.v[2].t = "Keyword" /\ pk.v[2].s = "module"
        THEN with_lexer(p, compile_module)
        ELSE unexpected_token(p,
                 IF pk.v[1].t = "LParen" THEN pk.v[2] ELSE pk.v[1],
                 "starting with '(module' for module argument"))

\* (assert_invalid (module ...) {string})
AssertInvalid_parse(p) ==
    Then(parse_start(p, "assert_invalid"), LAMBDA start :
    Then(InlineRoot_parse(start.p), LAMBDA wat :
    Then(String_parse(wat.p), LAMBDA expected :
    Then(expect(expected.p, "RParen", "Token::RParen"), LAMBDA r :
        Ok([start |-> start.v, wat |-> wat.v, expected |-> expected.v], r.p)))))

\* (assert_unlinkable (module ...) {string})
AssertUnlinkable_parse(p) ==
    Then(parse_start(p, "assert_unlinkable"), LAMBDA start :
    Then(InlineRoot_parse(start.p), LAMBDA wat :
    Then(String_parse(wat.p), LAMBDA expected :
    Then(expect(expected.p, "RParen", "Token::RParen"), LAMBDA r :
        Ok([start |-> start.v, wat |-> wat.v, expected |-> expected.v], r.p)))))

\* (assert_exhaustion (invoke {name} {constant}*) {string})
AssertExhaustion_parse(p) ==
    Then(parse_start(p, "assert_exhaustion"), LAMBDA start :
    Then(Invoke_parse(start.p), LAMBDA invoke :
    Then(String_parse(invoke.p), LAMBDA expected :
    Then(expect(expected.p, "RParen", "Token::RParen"), LAMBDA r :
        Ok([start |-> start.v, invoke |-> invoke.v, expected |-> expected.v], r.p)))))

(***************************************************************************)
(* Directives.                                                             *)
(***************************************************************************)
Tagged(tag, r) == IF r.ok THEN Ok([k |-> tag, v |-> r.v], r.p) ELSE r

\* The Err(err) arm of the module directive: q is the parser the embedded attempt
\* left, c what the Module Compiler made of the lexer cloned before the attempt.
module_fallback(q, c) ==
    IF c.ok THEN Ok([k |-> "InlineModule", v |-> c.v], replace_lexer(q, c.lexer))
    ELSE Err(c.e, q)

\* The match with the tags of the two embedded kinds confused.
module_attempted_one_tag(prev_lexer, m) ==
    IF m.ok THEN Ok([k |-> "BinaryModule", v |-> m.v.embedded.data], m.p)
    ELSE module_fallback([m.p EXCEPT !.ignored_error = m.e], compile_module(prev_lexer))

\* `match parser.parse::<EmbeddedModule>()`, m being what the attempt returned.
module_attempted(prev_lexer, m) ==
    IF m.ok
    THEN Ok([k |-> IF m.v.embedded.k = "Quote" THEN "QuoteModule" ELSE "BinaryModule",
             v |-> m.v.embedded.data], m.p)
    ELSE module_fallback([m.p EXCEPT !.ignored_error = m.e], compile_module(prev_lexer))

\* The arm with the lexer taken after the attempt instead of cloned before it.
module_directive_no_clone(p) ==
    module_attempted(EmbeddedModule_parse(p).p.tokens, EmbeddedModule_parse(p))

\* The Some(Token::Keyword("module")) arm of Directive::parse.
module_directive(p) == module_attempted(clone_lexer(p), EmbeddedModule_parse(p))

\* The `match t2` of Directive::parse.
dispatch(p, t2) ==
    IF t2.t # "Keyword" THEN unexpected_token(p, t2, "keyword for WAST directive")
    ELSE CASE t2.s = "assert_return" -> Tagged("AssertReturn", AssertReturn_parse(p))
           [] t2.s = "assert_trap" -> Tagged("AssertTrap", AssertTrap_parse(p))
           [] t2.s = "assert_malformed" ->
                  Tagged("AssertMalformed", AssertMalformed_parse(p))
           [] t2.s = "assert_invalid" -> Tagged("AssertInvalid", AssertInvalid_parse(p))
           [] t2.s = "assert_unlinkable" ->
                  Tagged("AssertUnlinkable", AssertUnlinkable_parse(p))
           [] t2.s = "assert_exhaustion" ->
                  Tagged("AssertExhaustion", AssertExhaustion_parse(p))
           [] t2.s = "register" -> Tagged("Register", Register_parse(p))
           [] t2.s = "invoke" -> Tagged("Invoke", Invoke_parse(p))
           [] t2.s = "module" -> module_directive(p)
           [] OTHER -> unexpected_token(p, t2, "keyword for WAST directive")

\* Directive::parse taking its first token with consume() instead of peek().
Directive_parse_consuming(p) ==
    Then(peek(p), LAMBDA pk :
        IF pk.v[1].t = "LParen" THEN dispatch(p, pk.v[2])
        ELSE Then(consume(p), LAMBDA t :
                 unexpected_token(t.p, t.v, "'(' for start of WAST directive")))

Directive_parse(p) ==
    Then(peek(p), LAMBDA pk :
        IF pk.v[1].t = "LParen" THEN dispatch(p, pk.v[2])
        ELSE unexpected_token(p, pk.v[1], "'(' for start of WAST directive"))

(***************************************************************************)
(* Source texts.  A source is the item sequence its lexer yields, each     *)
(* token with its byte offset, and the length of the text.                 *)
(***************************************************************************)
LParen == [t |-> "LParen"]

RParen == [t |-> "RParen"]

Keyword(s) == [t |-> "Keyword", s |-> s]

Ident(s) == [t |-> "Ident", s |-> s]

Str(s) == [t |-> "String", s |-> s]

IntTok(sign, base, digits) == [t |-> "Int", sign |-> sign, base |-> base, digits |-> digits]

FloatTok(sign, f) == [t |-> "Float", sign |-> sign, f |-> f]

\* The number of bytes of the text of a float without its sign.
FloatWidth(f) ==
    IF f.k = "Inf" THEN 3
    ELSE IF f.k = "Nan" THEN 3 + (IF f.payload = None THEN 0 ELSE 3 + Len(f.payload.digits))
    ELSE (IF f.base = "Hex" THEN 2 ELSE 0) + Len(f.frac)
         + (IF f.exp = None THEN 0
            ELSE 1 + (IF f.exp.sign = "Minus" THEN 1 ELSE 0) + Len(f.exp.digits))

\* The number of bytes of a token's text.
TokenWidth(tok) ==
    CASE tok.t \in {"LParen", "RParen"} -> 1
      [] tok.t \in {"Keyword", "Ident"} -> Len(tok.s)
      [] tok.t = "String" -> Len(tok.s) + 2
      [] tok.t = "Int" -> (IF tok.sign = "Minus" THEN 1 ELSE 0)
                          + (IF tok.base = "Hex" THEN 2 ELSE 0) + Len(tok.digits)
      [] tok.t = "Float" -> (IF tok.sign = "Minus" THEN 1 ELSE 0) + FloatWidth(tok.f)
      [] OTHER -> 1

\* The items of the tokens toks laid out from byte offset off on, one blank apart.
\* A token of kind "Bad" stands for text the lexer fails on.
RECURSIVE Layout(_, _)
Layout(toks, off) ==
    IF toks = <<>> THEN <<>>
    ELSE IF Head(toks).t = "Bad"
    THEN <<[ok |-> FALSE, err |-> "LexError", pos |-> off]>>
    ELSE <<[ok |-> TRUE, tok |-> Head(toks), off |-> off]>>
         \o Layout(Tail(toks), off + TokenWidth(Head(toks)) + 1)

RECURSIVE TextLen(_)
TextLen(toks) ==
    IF toks = <<>> THEN 0 ELSE TokenWidth(Head(toks)) + 1 + TextLen(Tail(toks))

Source(toks) == [items |-> Layout(toks, 0), len |-> TextLen(toks)]

(***************************************************************************)
(* Scripts: the string bodies and the top-level forms they are made of.    *)
(***************************************************************************)
S_asm == <<92, 48, 48, 97, 115, 109>>                              \* \00asm

S_version == <<92, 48, 49, 92, 48, 48, 92, 48, 48, 92, 48, 48>>    \* \01\00\00\00

S_memory == <<40, 109, 101, 109, 111, 114, 121, 32, 49, 41>>       \* (memory 1)

S_f == <<102>>                                                     \* f

S_msg == <<109, 115, 103>>                                         \* msg

S_ff == <<92, 102, 102>>                                           \* \ff

S_zz == <<92, 122, 122>>                                           \* \zz

Dec(d) == IntTok("Plus", "Dec", d)

I32Const(d) == <<LParen, Keyword("i32.const"), Dec(d), RParen>>

InvokeF == <<LParen, Keyword("invoke"), Str(S_f)>>

FuncField == <<LParen, Keyword("func"), RParen>>

InlineFunc == <<LParen, Keyword("module")>> \o FuncField \o <<RParen>>

\* Forms that parse as one directive.
GoodForms ==
    {<<LParen, Keyword("module"), Keyword("binary"), Str(S_asm), Str(S_version), RParen>>,
     <<LParen, Keyword("module"), Keyword("binary"), RParen>>,
     <<LParen, Keyword("module"), Keyword("binary"), Str(S_ff), RParen>>,
     <<LParen, Keyword("module"), Ident("$M1"), Keyword("quote"), Str(S_memory), RParen>>,
     InlineFunc,
     <<LParen, Keyword("module"), Ident("$m"), LParen, Keyword("memory"), Dec(<<49>>),
       RParen, LParen, Keyword("start"), Dec(<<48>>), RParen, RParen>>,
     <<LParen, Keyword("assert_return")>> \o InvokeF \o I32Const(<<49>>)
         \o <<RParen>> \o I32Const(<<50>>) \o <<RParen>>,
     <<LParen, Keyword("assert_return"), LParen, Keyword("get"), Str(S_f), RParen>>
         \o I32Const(<<52, 50>>) \o <<RParen>>,
     <<LParen, Keyword("assert_trap")>> \o InvokeF \o <<RParen, Str(S_msg), RParen>>,
     <<LParen, Keyword("assert_exhaustion")>> \o InvokeF \o <<RParen, Str(S_msg), RParen>>,
     <<LParen, Keyword("assert_malformed"), LParen, Keyword("module"), Keyword("quote"),
       Str(S_memory), RParen, Str(S_msg), RParen>>,
     <<LParen, Keyword("assert_invalid")>> \o InlineFunc \o <<Str(S_msg), RParen>>,
     <<LParen, Keyword("assert_unlinkable")>> \o InlineFunc \o <<Str(S_msg), RParen>>,
     <<LParen, Keyword("register"), Str(S_f), Ident("$foo"), RParen>>,
     <<LParen, Keyword("invoke"), Ident("$m"), Str(S_f), RParen>>}

\* Forms no directive can be parsed from.
BadForms ==
    {<<LParen, Keyword("module"), Keyword("binary"), Str(S_f)>> \o FuncField \o <<RParen>>,
     <<LParen, Keyword("module"), Keyword("quote"), Str(S_ff), RParen>>,
     <<LParen, Keyword("module"), Keyword("binary"), Str(S_zz), RParen>>,
     <<LParen, Keyword("module")>> \o FuncField,
     <<LParen, Keyword("module"), LParen, Keyword("start"), Dec(<<48>>), RParen,
       LParen, Keyword("start"), Dec(<<49>>), RParen, RParen>>,
     <<LParen, Keyword("assert_unlinkable"), LParen, Keyword("module")>> \o FuncField
         \o <<Str(S_f), RParen, Str(S_msg), RParen>>,
     <<LParen, Keyword("assert_invalid"), Str(S_f), Str(S_msg), RParen>>,
     <<LParen, Keyword("assert_return"), LParen, Keyword("bogus"), RParen, RParen>>,
     <<LParen, Keyword("bogus"), RParen>>,
     <<Str(S_f)>>,
     <<[t |-> "Bad"]>>,
     <<LParen, [t |-> "Bad"]>>,
     InvokeF}

\* The forms that stand before the last one of a script.
LeadingForms ==
    {f \in GoodForms :
        /\ f[2].s \in {"module", "assert_return", "assert_invalid", "invoke"}
        /\ f[2].s = "module" /\ f[3].t = "Keyword" => Len(f) = 6}

MaxLeading == 2

RECURSIVE SeqsUpTo(_, _)
SeqsUpTo(S, n) ==
    IF n = 0 THEN {<<>>}
    ELSE LET shorter == SeqsUpTo(S, n - 1)
         IN  shorter \cup {Append(q, x) : q \in {r \in shorter : Len(r) = n - 1}, x \in S}

\* A script is up to MaxLeading directives and at most one more form, which may
\* be one that cannot be parsed: the parse ends at the first such form.
Scripts ==
    {lead \o last : lead \in SeqsUpTo(LeadingForms, MaxLeading),
                    last \in {<<>>} \cup {<<f>> : f \in GoodForms \cup BadForms}}

RECURSIVE Flatten(_)
Flatten(forms) == IF forms = <<>> THEN <<>> ELSE Head(forms) \o Flatten(Tail(forms))

(***************************************************************************)
(* Root::parse, one step per iteration of its loop.                        *)
(***************************************************************************)
Seen == [at |-> parser.tokens.at,
         current_pos |-> parser.current_pos,
         ignored_error |-> parser.ignored_error,
         parsed |-> Len(directives)]

Init ==
    /\ script \in Scripts
    /\ parser = Parser_new(Source(Flatten(script)))
    /\ pc = "loop"
    /\ directives = <<>>
    /\ result = None
    /\ trace = None
    /\ lit = None

\* The turn with `is_done().unwrap_or(true)`: a failing is_done() ends the loop.
loop_turn_lenient(p) ==
    IF ~is_done(p).ok \/ is_done(p).v THEN Ok([k |-> "Done"], p) ELSE Directive_parse(p)

\* One turn of `while !parser.is_done()? { directives.push(parser.parse()?) }`:
\* the directive or the error of the turn, or the end of the loop.
loop_turn(p) ==
    Then(is_done(p), LAMBDA done :
        IF done.v THEN Ok([k |-> "Done"], p) ELSE Directive_parse(p))

\* The step with the directive put before the ones parsed so far.
RootDirective_prepend ==
    /\ pc = "loop"
    /\ loop_turn(parser).ok
    /\ loop_turn(parser).v.k # "Done"
    /\ parser' = loop_turn(parser).p
    /\ directives' = <<loop_turn(parser).v>> \o directives
    /\ trace' = Seen
    /\ UNCHANGED <<pc, result, script, lit>>

\* `directives.push(parser.parse()?)` with a directive parsed.
RootDirective ==
    /\ pc = "loop"
    /\ loop_turn(parser).ok
    /\ loop_turn(parser).v.k # "Done"
    /\ parser' = loop_turn(parser).p
    /\ directives' = Append(directives, loop_turn(parser).v)
    /\ trace' = Seen
    /\ UNCHANGED <<pc, result, script, lit>>

\* is_done() or the directive returns an error: `?` returns it and drops the Vec.
RootFail ==
    /\ pc = "loop"
    /\ ~loop_turn(parser).ok
    /\ parser' = loop_turn(parser).p
    /\ result' = Returned(loop_turn(parser))
    /\ pc' = "failed"
    /\ directives' = <<>>
    /\ trace' = Seen
    /\ UNCHANGED <<script, lit>>

\* No token is left: Ok(Root { directives }).
RootDone ==
    /\ pc = "loop"
    /\ loop_turn(parser).ok
    /\ loop_turn(parser).v.k = "Done"
    /\ result' = [ok |-> TRUE, v |-> [directives |-> directives]]
    /\ pc' = "done"
    /\ trace' = Seen
    /\ UNCHANGED <<parser, directives, script, lit>>

Next == RootDirective \/ RootFail \/ RootDone

Spec == Init /\ [][Next]_vars

(***************************************************************************)
(* Integer literals for the scalar decoder: a value near a boundary of the *)
(* 32- and 64-bit ranges, written in decimal or hexadecimal.               *)
(***************************************************************************)
Near == 2

Wide == NumLimbs(96)

DigitChar(d, upper) == IF d < 10 THEN 48 + d ELSE (IF upper THEN 65 ELSE 97) + d - 10

RECURSIVE DigitsOf(_, _, _)
DigitsOf(u, radix, upper) ==
    LET r == DivSmall(u, radix)
    IN  IF r.q = Zero(Len(u)) THEN <<DigitChar(r.rem, upper)>>
        ELSE Append(DigitsOf(r.q, radix, upper), DigitChar(r.rem, upper))

\* The digit string of u in the given base and style.
Written(u, base, style) ==
    LET d == DigitsOf(u, IF base = "Hex" THEN 16 ELSE 10, style = "upper")
    IN  IF style = "underscore" /\ Len(d) >= 2
        THEN <<Head(d), 95>> \o Tail(d)
        ELSE d

Boundaries == {PowerOfTwo(31, Wide), PowerOfTwo(32, Wide),
               PowerOfTwo(63, Wide), PowerOfTwo(64, Wide)}

LiteralValues ==
    {Small(k, Wide) : k \in 0..Near}
    \cup {wrapping_add(b, Small(k, Wide)) : b \in Boundaries, k \in 0..Near}
    \cup {wrapping_sub(b, Small(k, Wide)) : b \in Boundaries, k \in 1..Near}

Literals ==
    {[kw |-> kw, sign |-> sign, base |-> base, style |-> style, u |-> u,
      digits |-> Written(u, base, style)] :
        kw \in {"i32.const", "i64.const", "f32.const", "f64.const"},
        sign \in {"Plus", "Minus"},
        base \in {"Dec", "Hex"},
        style \in {"plain", "underscore", "upper"},
        u \in LiteralValues}

LiteralSource(l) ==
    Source(<<LParen, Keyword(l.kw), IntTok(l.sign, l.base, l.digits), RParen>>)

(***************************************************************************)
(* The scalar decoder run: Parser::new(s).parse::<Const>() on a literal.   *)
(***************************************************************************)
InitConst ==
    /\ lit \in Literals
    /\ parser = Parser_new(LiteralSource(lit))
    /\ pc = "const"
    /\ directives = <<>>
    /\ result = None
    /\ trace = None
    /\ script = <<>>

ConstParse ==
    /\ pc = "const"
    /\ parser' = Const_parse(parser).p
    /\ result' = Returned(Const_parse(parser))
    /\ pc' = IF Const_parse(parser).ok THEN "const_ok" ELSE "const_err"
    /\ UNCHANGED <<directives, trace, script, lit>>

NextConst == ConstParse

SpecConst == InitConst /\ [][NextConst]_vars

(***************************************************************************)
(* Claims about the scalar decoder (checked under SpecConst).              *)
(***************************************************************************)
\* The integer a w-bit two's-complement pattern denotes: the low w-1 bits
\* minus 2^(w-1) times the top bit, as a sign and a magnitude.
SignedValue(bits) ==
    LET w == 16 * Len(bits)
        top == bits[Len(bits)] >= LimbBase \div 2
        low == IF top THEN [bits EXCEPT ![Len(bits)] = @ - LimbBase \div 2] ELSE bits
    IN  IF top
        THEN [neg |-> TRUE,
              mag |-> wrapping_sub(PowerOfTwo(w - 1, Wide), Widen(low, Wide))]
        ELSE [neg |-> FALSE, mag |-> Widen(bits, Wide)]

Positive(u) == [neg |-> FALSE, mag |-> u]

Negative(u) == [neg |-> u # Zero(Wide), mag |-> u]

IntConstDone == pc \in {"const_ok", "const_err"} /\ lit.kw \in {"i32.const", "i64.const"}

LitWidth == IF lit.kw = "i32.const" THEN 32 ELSE 64

LitTag == IF lit.kw = "i32.const" THEN "I32" ELSE "I64"

\* C1: for i32.const and i64.const a plus-signed literal of value u <= 2^w - 1
\* decodes to u when u <= 2^(w-1) - 1 and to u - 2^w otherwise, a minus-signed
\* literal of value u <= 2^(w-1) decodes to -u, and every decoded value lies in
\* [-2^(w-1), 2^(w-1) - 1].
C1_IntDecode ==
    IntConstDone =>
        LET full == PowerOfTwo(LitWidth, Wide)
            half == PowerOfTwo(LitWidth - 1, Wide)
        IN  /\ (lit.sign = "Plus" /\ Less(lit.u, full)) =>
                   /\ result.ok
                   /\ result.v.k = LitTag
                   /\ SignedValue(result.v.bits) =
                          IF Less(lit.u, half) THEN Positive(lit.u)
                          ELSE Negative(wrapping_sub(full, lit.u))
            /\ (lit.sign = "Minus" /\ Leq(lit.u, half)) =>
                   /\ result.ok
                   /\ result.v.k = LitTag
                   /\ SignedValue(result.v.bits) = Negative(lit.u)
            /\ result.ok =>
                   LET v == SignedValue(result.v.bits)
                   IN  IF v.neg THEN Leq(v.mag, half) ELSE Less(v.mag, half)

\* 4294967295 under i32.const has decoded to -1.
C1_Witness ==
    /\ pc = "const_ok"
    /\ lit.kw = "i32.const" /\ lit.sign = "Plus" /\ lit.base = "Dec"
    /\ lit.digits = <<52, 50, 57, 52, 57, 54, 55, 50, 57, 53>>
    /\ result.v = [k |-> "I32", bits |-> <<65535, 65535>>]

\* C2: a minus-signed literal with 2^(w-1) < u <= 2^w - 1 fails with the
\* too-small error, a literal of either sign with u > 2^w - 1 fails with the
\* invalid-integer error, and neither produces a Const.
C2_IntRejected ==
    IntConstDone =>
        LET full == PowerOfTwo(LitWidth, Wide)
            half == PowerOfTwo(LitWidth - 1, Wide)
        IN  /\ (lit.sign = "Minus" /\ Less(half, lit.u) /\ Less(lit.u, full)) =>
                   /\ ~result.ok
                   /\ pc = "const_err"
                   /\ result.e.kind.k = "TooSmallInt"
                   /\ result.e.kind.digits = Widen(SubSeq(lit.u, 1, NumLimbs(LitWidth)), 4)
            /\ ~Less(lit.u, full) =>
                   /\ ~result.ok
                   /\ pc = "const_err"
                   /\ result.e.kind.k = "InvalidInt"

\* -2147483649 under i32.const was rejected as too small.
C2_Witness ==
    /\ pc = "const_err"
    /\ lit.kw = "i32.const" /\ lit.sign = "Minus"
    /\ lit.u = wrapping_add(PowerOfTwo(31, Wide), Small(1, Wide))
    /\ result.e.kind.k = "TooSmallInt"

(***************************************************************************)
(* Claims about the directive parser (checked under Spec).  The forms of   *)
(* the script are recognised here from their tokens alone.                 *)
(***************************************************************************)
\* The number of the form the last step worked on, and the form.
Turn == trace.parsed + 1

Form == script[Turn]

\* The last step parsed, or failed to parse, a form.
Attempted == trace # None /\ pc \in {"loop", "failed"}

\* The last step pushed a directive.
Parsed == trace # None /\ pc = "loop"

Last == directives[Len(directives)]

\* The parser as it was before the last step.
Before ==
    [parser EXCEPT !.tokens = [items |-> parser.source.items, at |-> trace.at],
                   !.current_pos = trace.current_pos,
                   !.ignored_error = trace.ignored_error]

\* The offset and the token index at which the i-th form of the script starts.
FormOffset(i) == TextLen(Flatten(SubSeq(script, 1, i - 1)))

FormStart(i) == Len(Flatten(SubSeq(script, 1, i - 1))) + 1

IsModuleForm(f) == Len(f) >= 2 /\ f[1] = LParen /\ f[2] = Keyword("module")

\* Where the quote or binary keyword of a module form stands.
KwAt(f) == IF Len(f) >= 3 /\ f[3].t = "Ident" THEN 4 ELSE 3

HasEmbeddedKeyword(f) ==
    Len(f) >= KwAt(f) /\ f[KwAt(f)] \in {Keyword("quote"), Keyword("binary")}

\* A string body whose escapes all decode, and one that decodes to UTF-8 text.
Decodes(s) == parse_escaped(Parser_new(Source(<<>>)), s).ok

DecodesText(s) == parse_escaped_text(Parser_new(Source(<<>>)), s).ok

EmbeddedForm(f, kw, good(_)) ==
    /\ IsModuleForm(f)
    /\ Len(f) > KwAt(f)
    /\ f[KwAt(f)] = Keyword(kw)
    /\ f[Len(f)] = RParen
    /\ \A i \in (KwAt(f) + 1)..(Len(f) - 1) : f[i].t = "String" /\ good(f[i].s)

InlineForm(f) ==
    /\ IsModuleForm(f)
    /\ ~HasEmbeddedKeyword(f)
    /\ compile_module(LookAhead_new(Layout(f, 0))).ok

FormKind(f) ==
    CASE f[2].s = "module" ->
             (IF ~HasEmbeddedKeyword(f) THEN "InlineModule"
              ELSE IF f[KwAt(f)].s = "quote" THEN "QuoteModule" ELSE "BinaryModule")
      [] f[2].s = "assert_return" -> "AssertReturn"
      [] f[2].s = "assert_trap" -> "AssertTrap"
      [] f[2].s = "assert_malformed" -> "AssertMalformed"
      [] f[2].s = "assert_invalid" -> "AssertInvalid"
      [] f[2].s = "assert_unlinkable" -> "AssertUnlinkable"
      [] f[2].s = "assert_exhaustion" -> "AssertExhaustion"
      [] f[2].s = "register" -> "Register"
      [] f[2].s = "invoke" -> "Invoke"

\* The directives that record the offset they start at, and that offset.
HasStart(d) == d.k \notin {"QuoteModule", "BinaryModule"}

DirectiveStart(d) == IF d.k = "InlineModule" THEN d.v.module.start ELSE d.v.start

\* C3: a module form whose optional identifier is followed by quote or binary,
\* strings that decode (to UTF-8 text under quote) and ')' is a QuoteModule
\* or a BinaryModule after its keyword; a form without the keyword that is a
\* valid inline module fails the embedded attempt and is an InlineModule.
C3_ModuleDispatch ==
    (Attempted /\ IsModuleForm(Form)) =>
        /\ EmbeddedForm(Form, "quote", DecodesText) =>
               pc = "loop" /\ Last.k = "QuoteModule"
        /\ EmbeddedForm(Form, "binary", Decodes) =>
               pc = "loop" /\ Last.k = "BinaryModule"
        /\ InlineForm(Form) =>
               /\ pc = "loop"
               /\ Last.k = "InlineModule"
               /\ ~EmbeddedModule_parse(Before).ok

\* C3 as stated: every string whose escapes decode is accepted under quote too.
C3_AnyDecodableString ==
    (Attempted /\ IsModuleForm(Form)) =>
        /\ EmbeddedForm(Form, "quote", Decodes) =>
               pc = "loop" /\ Last.k = "QuoteModule"
        /\ EmbeddedForm(Form, "binary", Decodes) =>
               pc = "loop" /\ Last.k = "BinaryModule"
        /\ InlineForm(Form) => pc = "loop" /\ Last.k = "InlineModule"

\* An identified inline module came out of the fallback, a quote module before it.
C3_Witness ==
    /\ Parsed
    /\ Turn = 2
    /\ EmbeddedForm(script[1], "quote", DecodesText)
    /\ directives[1].k = "QuoteModule"
    /\ InlineForm(Form)
    /\ Form[3].t = "Ident"
    /\ Last.k = "InlineModule"

\* C4: a Root parsed from n forms holds n directives, the i-th of the kind of
\* the i-th form and starting where that form starts.
C4_RootOrder ==
    pc = "done" =>
        /\ result.ok
        /\ Len(result.v.directives) = Len(script)
        /\ \A i \in 1..Len(script) :
               /\ result.v.directives[i].k = FormKind(script[i])
               /\ HasStart(result.v.directives[i]) =>
                      DirectiveStart(result.v.directives[i]) = FormOffset(i)

\* Three directives, the first resolved by rollback, the others of other kinds.
C4_Witness ==
    /\ pc = "done"
    /\ Len(script) = 3
    /\ result.v.directives[1].k = "InlineModule"
    /\ result.v.directives[2].k = "AssertReturn"
    /\ result.v.directives[3].k = "BinaryModule"

\* The first form of the script that cannot be parsed, or 0.
FirstBad ==
    IF \E i \in 1..Len(script) : script[i] \in BadForms
    THEN CHOOSE i \in 1..Len(script) :
             script[i] \in BadForms /\ \A j \in 1..(i - 1) : script[j] \notin BadForms
    ELSE 0

\* The error is the lexical error of the token form k starts with.
LexErrorOf(k) ==
    /\ script[k][1].t = "Bad"
    /\ result.e.kind.k = "Lex"
    /\ result.e.pos = FormOffset(k)

\* C5: a failed parse returns one error and no Root, drops the directives
\* parsed so far and parses nothing more; the error is raised in the turn of
\* the first form that cannot be parsed or, when that form starts with a token
\* the lexer rejects, in the turn before it, whose lookahead meets that token;
\* a script with such a form never yields a Root.
C5_AllOrNothing ==
    /\ pc = "failed" =>
           /\ ~result.ok
           /\ DOMAIN result = {"ok", "e"}
           /\ directives = <<>>
           /\ \/ Turn = FirstBad
              \/ Turn = FirstBad - 1 /\ LexErrorOf(FirstBad)
           /\ ~ENABLED Next
    /\ pc = "done" => FirstBad = 0

\* C5 as stated: the error is always raised in the turn of the first form that
\* cannot be parsed, every form before it having been parsed.
C5_RaisedInTurnOfFirstBad ==
    /\ pc = "failed" =>
           /\ ~result.ok
           /\ DOMAIN result = {"ok", "e"}
           /\ directives = <<>>
           /\ Turn = FirstBad
           /\ trace.parsed = FirstBad - 1
           /\ ~ENABLED Next
    /\ pc = "done" => FirstBad = 0

\* Two directives were parsed and dropped when the third form failed.
C5_Witness ==
    /\ pc = "failed"
    /\ trace.parsed = 2
    /\ Len(script) = 3
    /\ directives = <<>>
    /\ result.e.kind.k = "Unexpected"

\* The last step worked on a module form and its embedded attempt failed.
FellBack == Attempted /\ IsModuleForm(Form) /\ ~EmbeddedModule_parse(Before).ok

\* The lexer cloned before the attempt of the last step.
Snapshot == [items |-> parser.source.items, at |-> trace.at]

\* C6: when the embedded attempt and the fallback of a module directive both
\* fail, the error returned is the fallback's and its prior-error link is the
\* discarded error of the embedded attempt, itself without a link.
C6_FallbackErrorLinked ==
    (FellBack /\ pc = "failed") =>
        /\ result.e.kind = compile_module(Snapshot).e.kind
        /\ result.e.prev_error =
               [EmbeddedModule_parse(Before).e EXCEPT !.prev_error = None]

Depth1(e) == e.prev_error # None => e.prev_error.prev_error = None

\* C7: the error the parse returns and the error the parser holds as ignored
\* have a prior-error link that is absent or leads to an error without one.
C7_ChainDepth ==
    /\ parser.ignored_error # None => Depth1(parser.ignored_error)
    /\ pc = "failed" => Depth1(result.e)

\* Two attempts were discarded, the second error linked to the first, and the
\* error of the third form carries the second alone.
C7_Witness ==
    /\ pc = "failed"
    /\ trace.parsed = 2
    /\ trace.ignored_error # None
    /\ trace.ignored_error.prev_error # None
    /\ result.e.prev_error # None
    /\ result.e.prev_error.kind = trace.ignored_error.kind
    /\ result.e.prev_error.prev_error = None

\* C8: the fallback of a module directive runs the Module Compiler on the
\* stream as it stood before the embedded attempt: the inline module starts at
\* the '(' of the form and the outcome is that of compiling from there.
C8_Snapshot ==
    FellBack =>
        /\ Snapshot.items[Snapshot.at].ok
        /\ Snapshot.items[Snapshot.at].tok = LParen
        /\ Snapshot.items[Snapshot.at].off = FormOffset(Turn)
        /\ compile_module(Snapshot).ok = (pc = "loop")
        /\ IF pc = "loop"
           THEN /\ Last = [k |-> "InlineModule", v |-> compile_module(Snapshot).v]
                /\ Last.v.module.start = FormOffset(Turn)
                /\ parser.tokens = compile_module(Snapshot).lexer
           ELSE result.e = compile_module(Snapshot).e

\* The attempt went past the identifier of the second form before it failed,
\* and the inline module starts at that form's '('.
C8_Witness ==
    /\ FellBack
    /\ pc = "loop"
    /\ Turn = 2
    /\ Form[3].t = "Ident"
    /\ EmbeddedModule_parse(Before).p.tokens.at > trace.at + 3
    /\ Last.k = "InlineModule"
    /\ Last.v.module.start = FormOffset(2)
    /\ FormOffset(2) > 0

\* The last step handed the token buffer to the Module Compiler.
Delegated ==
    /\ Attempted
    /\ Len(Form) >= 4
    /\ \/ FellBack
       \/ /\ Form[1] = LParen
          /\ Form[2] \in {Keyword("assert_invalid"), Keyword("assert_unlinkable")}
          /\ Form[3] = LParen
          /\ Form[4] = Keyword("module")

\* C9: after a delegation to the Module Compiler the parser holds the buffer of
\* its source again, never the empty substitute, and after a parsed directive
\* it stands at the next form.
C9_BufferReturned ==
    Delegated =>
        /\ parser.tokens # empty_lexer
        /\ parser.tokens.items = parser.source.items
        /\ pc = "loop" => parser.tokens.at = FormStart(Turn + 1)

\* The dispatch of the last step failed on its two tokens of lookahead.
DispatchFailed ==
    /\ pc = "failed"
    /\ result.e.kind.k = "Unexpected"
    /\ result.e.kind.expected \in
           {"'(' for start of WAST directive", "keyword for WAST directive"}

\* C10: peek() and is_done() leave the parser as it is and a second peek()
\* returns the same pair; a dispatch that fails on a token other than '(' or
\* on an unknown keyword leaves the cursor and the position where they were,
\* and a parsed directive starts at the '(' the dispatch looked at.
C10_NoAdvance ==
    /\ peek(parser).p = parser
    /\ is_done(parser).p = parser
    /\ peek(peek(parser).p) = peek(parser)
    /\ is_done(parser).ok => is_done(is_done(parser).p) = is_done(parser)
    /\ DispatchFailed =>
           /\ parser.tokens = Snapshot
           /\ parser.current_pos = trace.current_pos
    /\ (Parsed /\ HasStart(Last)) =>
           DirectiveStart(Last) = Snapshot.items[Snapshot.at].off

\* After two directives the dispatch failed on an unknown keyword, the cursor
\* still before the '(' it looked at.
C10_Witness ==
    /\ DispatchFailed
    /\ trace.parsed = 2
    /\ result.e.kind.expected = "keyword for WAST directive"
    /\ result.e.kind.token = Keyword("bogus")
    /\ parser.tokens.at = trace.at
    /\ parser.tokens.at > 1
    /\ peek(parser).v = <<LParen, Keyword("bogus")>>

(***************************************************************************)
(* String bodies for the escape decoder: a body is a few well-formed       *)
(* pieces and at most one more piece, which may be a malformed escape.     *)
(* Each piece is written with the bytes or the defect it stands for.       *)
(***************************************************************************)
WellFormedPieces ==
    {[src |-> <<97>>, bytes |-> <<97>>],
     [src |-> <<233>>, bytes |-> <<195, 169>>],
     [src |-> <<8364>>, bytes |-> <<226, 130, 172>>],
     [src |-> <<128512>>, bytes |-> <<240, 159, 152, 128>>],
     [src |-> <<92, 116>>, bytes |-> <<9>>],
     [src |-> <<92, 110>>, bytes |-> <<10>>],
     [src |-> <<92, 114>>, bytes |-> <<13>>],
     [src |-> <<92, 34>>, bytes |-> <<34>>],
     [src |-> <<92, 39>>, bytes |-> <<39>>],
     [src |-> <<92, 92>>, bytes |-> <<92>>],
     [src |-> <<92, 48, 48>>, bytes |-> <<0>>],
     [src |-> <<92, 55, 102>>, bytes |-> <<127>>],
     [src |-> <<92, 102, 102>>, bytes |-> <<255>>],
     [src |-> <<92, 97, 66>>, bytes |-> <<171>>],
     [src |-> <<92, 67, 51>>, bytes |-> <<195>>],
     [src |-> <<92, 97, 57>>, bytes |-> <<169>>],
     [src |-> <<92, 117, 123, 52, 49, 125>>, bytes |-> <<65>>],
     [src |-> <<92, 117, 123, 101, 57, 125>>, bytes |-> <<195, 169>>],
     [src |-> <<92, 117, 123, 50, 48, 65, 67, 125>>, bytes |-> <<226, 130, 172>>],
     [src |-> <<92, 117, 123, 49, 70, 54, 48, 48, 125>>,
      bytes |-> <<240, 159, 152, 128>>],
     [src |-> <<92, 117, 123, 49, 48, 70, 70, 70, 70, 125>>,
      bytes |-> <<244, 143, 191, 191>>],
     [src |-> <<92, 117, 123, 48, 125>>, bytes |-> <<0>>],
     [src |-> <<92, 117, 123, 68, 55, 70, 70, 125>>, bytes |-> <<237, 159, 191>>],
     [src |-> <<92, 117, 123, 69, 48, 48, 48, 125>>, bytes |-> <<238, 128, 128>>],
     [src |-> S_asm, bytes |-> <<0, 97, 115, 109>>],
     [src |-> S_version, bytes |-> <<1, 0, 0, 0>>]}

\* Pieces that stand before the last one of a body.
LeadingPieces ==
    {piece \in WellFormedPieces :
        piece.src \in {<<97>>, <<233>>, <<92, 110>>, <<92, 102, 102>>, <<92, 92>>,
                     <<92, 117, 123, 50, 48, 65, 67, 125>>, S_asm}}

MalformedPieces ==
    {[src |-> <<92, 122>>, defect |-> "Unknown"],
     [src |-> <<92, 103, 48>>, defect |-> "Unknown"],
     [src |-> <<92, 97>>, defect |-> "SecondDigit"],
     [src |-> <<92, 97, 103>>, defect |-> "SecondDigit"],
     [src |-> <<92, 117>>, defect |-> "NoBrace"],
     [src |-> <<92, 117, 52, 49>>, defect |-> "NoBrace"],
     [src |-> <<92, 117, 123, 52, 49>>, defect |-> "NoClose"],
     [src |-> <<92, 117, 123>>, defect |-> "NoClose"],
     [src |-> <<92, 117, 123, 125>>, defect |-> "NotHex"],
     [src |-> <<92, 117, 123, 120, 121, 122, 125>>, defect |-> "NotHex"],
     [src |-> <<92, 117, 123, 52, 95, 49, 125>>, defect |-> "NotHex"],
     [src |-> <<92, 117, 123, 68, 56, 48, 48, 125>>, defect |-> "NotScalar"],
     [src |-> <<92, 117, 123, 68, 70, 70, 70, 125>>, defect |-> "NotScalar"],
     [src |-> <<92, 117, 123, 49, 49, 48, 48, 48, 48, 125>>, defect |-> "NotScalar"],
     [src |-> <<92, 117, 123, 70, 70, 70, 70, 70, 70, 70, 70, 70, 125>>,
      defect |-> "NotScalar"],
     [src |-> <<92, 117, 123, 43, 52, 49, 125>>, defect |-> "NotHex"]}

MaxPieces == 2

\* A body in pieces: the pieces before the last, and the last one or None.
Bodies ==
    {[lead |-> lead, last |-> last] :
        lead \in SeqsUpTo(LeadingPieces, MaxPieces),
        last \in {None} \cup WellFormedPieces \cup MalformedPieces}

RECURSIVE SrcOf(_)
SrcOf(pieces) == IF pieces = <<>> THEN <<>> ELSE Head(pieces).src \o SrcOf(Tail(pieces))

\* The characters between the quotes of the string written from b.
BodyOf(b) == SrcOf(b.lead) \o (IF b.last = None THEN <<>> ELSE b.last.src)

(***************************************************************************)
(* SpecEscape: parse_escaped and parse_escaped_text on one string body.    *)
(***************************************************************************)
InitEscape ==
    /\ lit \in Bodies
    /\ parser = Parser_new(Source(<<Str(BodyOf(lit))>>))
    /\ pc = "escape"
    /\ directives = <<>>
    /\ result = None
    /\ trace = None
    /\ script = <<>>

EscapeBytes ==
    /\ pc = "escape"
    /\ parser' = parse_escaped(parser, BodyOf(lit)).p
    /\ result' = Returned(parse_escaped(parser, BodyOf(lit)))
    /\ pc' = "bytes"
    /\ UNCHANGED <<directives, trace, script, lit>>

EscapeText ==
    /\ pc = "escape"
    /\ parser' = parse_escaped_text(parser, BodyOf(lit)).p
    /\ result' = Returned(parse_escaped_text(parser, BodyOf(lit)))
    /\ pc' = "text"
    /\ UNCHANGED <<directives, trace, script, lit>>

NextEscape == EscapeBytes \/ EscapeText

SpecEscape == InitEscape /\ [][NextEscape]_vars

(***************************************************************************)
(* Claims about the escape decoder (checked under SpecEscape).             *)
(***************************************************************************)
RECURSIVE BytesOf(_)
BytesOf(pieces) ==
    IF pieces = <<>> THEN <<>> ELSE Head(pieces).bytes \o BytesOf(Tail(pieces))

WellFormedBody(b) == b.last \notin MalformedPieces

\* The bytes a well-formed body stands for, piece by piece.
Expected(b) == BytesOf(b.lead) \o (IF b.last = None THEN <<>> ELSE b.last.bytes)

\* C11: the bytes decoded from a well-formed body are, in order, the UTF-8
\* bytes of its unescaped characters, 09 0A 0D 22 27 5C for \t \n \r \" \' \\,
\* the byte 16*X + Y for \XY and the UTF-8 encoding of H for \u{H}; "\00asm"
\* and "\01\00\00\00" concatenate to 00 61 73 6D 01 00 00 00.
C11_EscapeDecode ==
    /\ (pc = "bytes" /\ WellFormedBody(lit)) =>
           result = [ok |-> TRUE, v |-> Expected(lit)]
    /\ EmbeddedModule_parse(Parser_new(Source(
           <<LParen, Keyword("module"), Keyword("binary"),
             Str(S_asm), Str(S_version), RParen>>))).v.embedded.data
       = <<0, 97, 115, 109, 1, 0, 0, 0>>

\* The body \00asm\01\00\00\00 has decoded to its eight bytes.
C11_Witness ==
    /\ pc = "bytes"
    /\ BodyOf(lit) = S_asm \o S_version
    /\ result.ok
    /\ result.v = <<0, 97, 115, 109, 1, 0, 0, 0>>

\* The reason the decoder gives for a defect.
ReasonOf(defect) ==
    CASE defect \in {"Unknown", "SecondDigit"} -> "invalid \\XX format"
      [] defect \in {"NoBrace", "NoClose"} -> "invalid \\u{xxxx} format"
      [] defect \in {"NotHex", "NotScalar"} -> "invalid code point in \\u{xxxx}"

\* C12: a body with a malformed escape (unknown escape character, missing or
\* non-hex second digit, \u without '{', \u{ without '}', \u{..} that is not
\* hexadecimal or not a scalar value) fails with the invalid-string-literal
\* error carrying the literal and the reason, and returns no bytes.
C12_MalformedEscape ==
    (pc \in {"bytes", "text"} /\ ~WellFormedBody(lit)) =>
        result = [ok |-> FALSE,
                  e |-> Error_new(InvalidStringLiteral(BodyOf(lit),
                                      ReasonOf(lit.last.defect)), 0)]

(***************************************************************************)
(* SpecString: one directive with one string written from a body: a name,  *)
(* an expected message or the payload of an embedded module.               *)
(***************************************************************************)
StringPlaces ==
    {"invoke", "get", "register", "assert_trap", "assert_exhaustion",
     "assert_malformed", "assert_invalid", "assert_unlinkable", "binary", "quote"}

\* The directive with the string s at the place named.
FormWith(place, s) ==
    CASE place = "invoke" -> <<LParen, Keyword("invoke"), Str(s), RParen>>
      [] place = "get" ->
             <<LParen, Keyword("assert_return"), LParen, Keyword("get"), Str(s), RParen>>
                 \o I32Const(<<49>>) \o <<RParen>>
      [] place = "register" -> <<LParen, Keyword("register"), Str(s), RParen>>
      [] place \in {"assert_trap", "assert_exhaustion"} ->
             <<LParen, Keyword(place)>> \o InvokeF \o <<RParen, Str(s), RParen>>
      [] place = "assert_malformed" ->
             <<LParen, Keyword(place), LParen, Keyword("module"), Keyword("quote"),
               Str(S_memory), RParen, Str(s), RParen>>
      [] place \in {"assert_invalid", "assert_unlinkable"} ->
             <<LParen, Keyword(place)>> \o InlineFunc \o <<Str(s), RParen>>
      [] place \in {"binary", "quote"} ->
             <<LParen, Keyword("module"), Keyword(place), Str(s), RParen>>

InitString ==
    /\ lit \in {[place |-> place, lead |-> b.lead, last |-> b.last] :
                   place \in StringPlaces, b \in {x \in Bodies : Len(x.lead) <= 1}}
    /\ parser = Parser_new(Source(FormWith(lit.place, BodyOf(lit))))
    /\ pc = "string"
    /\ directives = <<>>
    /\ result = None
    /\ trace = None
    /\ script = <<>>

StringDirective ==
    /\ pc = "string"
    /\ parser' = Directive_parse(parser).p
    /\ result' = Returned(Directive_parse(parser))
    /\ pc' = IF Directive_parse(parser).ok THEN "string_ok" ELSE "string_err"
    /\ UNCHANGED <<directives, trace, script, lit>>

NextString == StringDirective

SpecString == InitString /\ [][NextString]_vars

(***************************************************************************)
(* Claims about strings in directives (checked under SpecString).          *)
(***************************************************************************)
\* The string a parsed directive holds at the place it was written at.
StringAt(place, d) ==
    CASE place \in {"invoke", "register"} -> d.v.name
      [] place = "get" -> d.v.get.name
      [] place \in {"binary", "quote"} -> d.v
      [] OTHER -> d.v.expected

StringDone == pc \in {"string_ok", "string_err"} /\ WellFormedBody(lit)

\* C13: a name or an expected message whose decoded bytes are not UTF-8 fails
\* with the invalid-text error, and is the decoded text otherwise; the payload
\* of a binary module is the decoded bytes whether they are UTF-8 or not.
C13_TextValidity ==
    StringDone =>
        /\ (lit.place \notin {"binary", "quote"} /\ ~from_utf8(Expected(lit))) =>
               /\ ~result.ok
               /\ result.e.kind = [k |-> "Utf8Error", bytes |-> Expected(lit)]
        /\ (lit.place \notin {"binary", "quote"} /\ from_utf8(Expected(lit))) =>
               /\ result.ok
               /\ StringAt(lit.place, result.v) = Expected(lit)
        /\ lit.place = "binary" =>
               result = [ok |-> TRUE, v |-> [k |-> "BinaryModule", v |-> Expected(lit)]]

\* The name a\ff of a register was rejected as text.
C13_Witness ==
    /\ pc = "string_err"
    /\ lit.place = "register"
    /\ BodyOf(lit) = <<97, 92, 102, 102>>
    /\ result.e.kind = [k |-> "Utf8Error", bytes |-> <<97, 255>>]

(***************************************************************************)
(* Float literals for the scalar decoder: the NaN and infinity forms, the  *)
(* NaN keywords, and hexadecimal and decimal numbers, under each of the    *)
(* four constant keywords.                                                 *)
(***************************************************************************)
Exp(sign, digits) == [sign |-> sign, digits |-> digits]

Val(base, frac, exp) == [k |-> "Val", base |-> base, frac |-> frac, exp |-> exp]

\* nan, nan:0x12, inf
SpecialFloats ==
    {[k |-> "Nan", payload |-> None], [k |-> "Nan", payload |-> [digits |-> <<49, 50>>]], [k |-> "Inf"]}

\* The digits of a hexadecimal float before its point, and from the point on.
HexIntegers == {<<48>>, <<49>>, <<49, 50>>, <<49, 95, 50>>, <<70, 102>>}

HexFractions == {<<>>, <<46>>, <<46, 51, 52>>, <<46, 49>>, <<46, 56, 95, 56>>}

\* No exponent, 2, -2, 127, -126, 130, 200, 1030.
HexExponents ==
    {None, Exp("Plus", <<50>>), Exp("Minus", <<50>>), Exp("Plus", <<49, 50, 55>>),
     Exp("Minus", <<49, 50, 54>>), Exp("Plus", <<49, 51, 48>>), Exp("Plus", <<50, 48, 48>>),
     Exp("Plus", <<49, 48, 51, 48>>)}

HexFloats == {Val("Hex", i \o f, e) : i \in HexIntegers, f \in HexFractions, e \in HexExponents}

\* 123.456, 1.23e10, 0.1, 1e-10, 1e38, 1e39
DecFloats ==
    {Val("Dec", <<49, 50, 51, 46, 52, 53, 54>>, None),
     Val("Dec", <<49, 46, 50, 51>>, Exp("Plus", <<49, 48>>)),
     Val("Dec", <<48, 46, 49>>, None),
     Val("Dec", <<49>>, Exp("Minus", <<49, 48>>)),
     Val("Dec", <<49>>, Exp("Plus", <<51, 56>>)),
     Val("Dec", <<49>>, Exp("Plus", <<51, 57>>))}

FloatOperands ==
    {FloatTok(sign, f) : sign \in {"Plus", "Minus"},
                         f \in SpecialFloats \cup HexFloats \cup DecFloats}
    \cup {Keyword("nan:canonical"), Keyword("nan:arithmetic"), Keyword("nan"),
          Str(S_f), RParen}

FloatLiterals ==
    {[kw |-> kw, tok |-> tok] :
        kw \in {"i32.const", "i64.const", "f32.const", "f64.const"},
        tok \in FloatOperands}

FloatSource(l) == Source(<<LParen, Keyword(l.kw), l.tok, RParen>>)

InitFloat ==
    /\ lit \in FloatLiterals
    /\ parser = Parser_new(FloatSource(lit))
    /\ pc = "const"
    /\ directives = <<>>
    /\ result = None
    /\ trace = None
    /\ script = <<>>

SpecFloat == InitFloat /\ [][NextConst]_vars

(***************************************************************************)
(* Claims about NaN and infinity operands (checked under SpecFloat).       *)
(***************************************************************************)
FloatKw == lit.kw \in {"f32.const", "f64.const"}

FloatTag == IF lit.kw = "f32.const" THEN "F32" ELSE "F64"

ConstDone == pc \in {"const_ok", "const_err"}

IsFloat(kind) == lit.tok.t = "Float" /\ lit.tok.f.k = kind

NanKeyword == lit.tok.t = "Keyword" /\ lit.tok.s \in {"nan:canonical", "nan:arithmetic"}

\* C14: under f32.const and f64.const the keywords nan:canonical and
\* nan:arithmetic decode to the CanonicalNan and ArithmeticNan markers, which
\* differ from each other and are no F32/F64 value; a nan literal, bare, signed
\* or with a payload, decodes to an F32/F64 value that is a NaN; a signed inf
\* decodes to the infinity of the keyword's width and of its sign; under
\* i32.const and i64.const the NaN keywords are rejected as unexpected tokens.
C14_NanInf ==
    ConstDone =>
        /\ (FloatKw /\ NanKeyword) =>
               /\ result.ok
               /\ result.v.k = (IF lit.tok.s = "nan:canonical" THEN "CanonicalNan"
                                ELSE "ArithmeticNan")
               /\ result.v.k \notin {"F32", "F64"}
               /\ "v" \notin DOMAIN result.v
        /\ (FloatKw /\ IsFloat("Nan")) =>
               /\ result.ok
               /\ result.v.k = FloatTag
               /\ result.v.v.class = "Nan"
        /\ (FloatKw /\ IsFloat("Inf")) =>
               /\ result.ok
               /\ result.v = [k |-> FloatTag, v |-> FInf(lit.tok.sign = "Minus")]
        /\ (~FloatKw /\ NanKeyword) =>
               /\ ~result.ok
               /\ result.e.kind = [k |-> "Unexpected", token |-> lit.tok,
                                   expected |-> IF lit.kw = "i32.const" THEN "i32 value"
                                                ELSE "i64 value"]

\* (f64.const -inf) has decoded to the negative infinity of f64.
C14_Witness ==
    /\ pc = "const_ok"
    /\ lit = [kw |-> "f64.const", tok |-> FloatTok("Minus", [k |-> "Inf"])]
    /\ result.v = [k |-> "F64", v |-> [class |-> "Inf", neg |-> TRUE]]

(***************************************************************************)
(* Action and assertion forms: an invoke, register or get form with its    *)
(* identifier before or after the name, an assert_return around an action, *)
(* and an embedded module, each given to the parser of its rule.           *)
(***************************************************************************)
MaxArgs == 2

S_e == <<101>>                                                     \* e

\* The i-th constant of a form: (i32.const 42) first, then (i32.const i).
NthConst(i) == IF i = 1 THEN I32Const(<<52, 50>>) ELSE I32Const(<<48 + i>>)

RECURSIVE Consts(_)
Consts(n) == IF n = 0 THEN <<>> ELSE Consts(n - 1) \o NthConst(n)

\* The Const the i-th constant decodes to.
NthValue(i) == [k |-> "I32", bits |-> <<IF i = 1 THEN 42 ELSE i, 0>>]

ActionShapes ==
    {[kw |-> kw, id |-> id, args |-> n, close |-> c] :
        kw \in {"invoke", "register", "get"}, id \in {"none", "before", "after"},
        n \in 0..MaxArgs, c \in BOOLEAN}

\* ( kw [$m] "e" [$m] constant* [)]
ActionToks(a) ==
    <<LParen, Keyword(a.kw)>>
    \o (IF a.id = "before" THEN <<Ident("$m")>> ELSE <<>>)
    \o <<Str(S_e)>>
    \o (IF a.id = "after" THEN <<Ident("$m")>> ELSE <<>>)
    \o Consts(a.args)
    \o (IF a.close THEN <<RParen>> ELSE <<>>)

\* What stands where assert_return expects its action: a closed invoke or get,
\* a form of another keyword, a string, or nothing.
InnerShapes ==
    {a \in ActionShapes : a.kw \in {"invoke", "get"} /\ a.id # "after" /\ a.close
                          /\ a.args <= (IF a.kw = "invoke" THEN 1 ELSE 0)}
    \cup {[kw |-> kw] : kw \in {"bogus", "string", "nothing"}}

InnerToks(a) ==
    IF a.kw \in {"invoke", "get"} THEN ActionToks(a)
    ELSE IF a.kw = "bogus" THEN <<LParen, Keyword("bogus"), RParen>>
    ELSE IF a.kw = "string" THEN <<Str(S_e)>>
    ELSE <<>>

ReturnShapes ==
    {[inner |-> a, expected |-> n, close |-> c] :
        a \in InnerShapes, n \in 0..MaxArgs, c \in BOOLEAN}

ReturnToks(r) ==
    <<LParen, Keyword("assert_return")>> \o InnerToks(r.inner) \o Consts(r.expected)
    \o (IF r.close THEN <<RParen>> ELSE <<>>)

\* What follows the strings of an embedded module: ')', the end of the text,
\* or another token.
EmbeddedTails ==
    {<<RParen>>, <<>>, <<Keyword("binary")>>, <<LParen>>, <<Ident("$m")>>, <<Dec(<<49>>)>>,
     <<Str(S_zz)>>}

EmbeddedStrings == {S_asm, S_version, S_memory, S_e, S_ff}

EmbeddedShapes ==
    {[id |-> id, kw |-> kw, strings |-> ss, tail |-> t] :
        id \in BOOLEAN, kw \in {"binary", "quote"},
        ss \in SeqsUpTo(EmbeddedStrings, MaxArgs), t \in EmbeddedTails}

RECURSIVE Strs(_)
Strs(ss) == IF ss = <<>> THEN <<>> ELSE <<Str(Head(ss))>> \o Strs(Tail(ss))

EmbeddedToks(m) ==
    <<LParen, Keyword("module")>> \o (IF m.id THEN <<Ident("$M1")>> ELSE <<>>)
    \o <<Keyword(m.kw)>> \o Strs(m.strings) \o m.tail

Forms ==
    {[rule |-> a.kw, d |-> a, toks |-> ActionToks(a)] : a \in ActionShapes}
    \cup {[rule |-> "assert_return", d |-> r, toks |-> ReturnToks(r)] : r \in ReturnShapes}
    \cup {[rule |-> "module", d |-> m, toks |-> EmbeddedToks(m)] : m \in EmbeddedShapes}

\* Parser::new(s).parse::<T>() for the T of the form's rule.
InitForm ==
    /\ lit \in Forms
    /\ parser = Parser_new(Source(lit.toks))
    /\ pc = "form"
    /\ directives = <<>>
    /\ result = None
    /\ trace = None
    /\ script = <<>>

ParseInvoke ==
    /\ pc = "form" /\ lit.rule = "invoke"
    /\ parser' = Invoke_parse(parser).p
    /\ result' = Returned(Invoke_parse(parser))
    /\ pc' = IF Invoke_parse(parser).ok THEN "form_ok" ELSE "form_err"
    /\ UNCHANGED <<directives, trace, script, lit>>

ParseRegister ==
    /\ pc = "form" /\ lit.rule = "register"
    /\ parser' = Register_parse(parser).p
    /\ result' = Returned(Register_parse(parser))
    /\ pc' = IF Register_parse(parser).ok THEN "form_ok" ELSE "form_err"
    /\ UNCHANGED <<directives, trace, script, lit>>

ParseGetGlobal ==
    /\ pc = "form" /\ lit.rule = "get"
    /\ parser' = GetGlobal_parse(parser).p
    /\ result' = Returned(GetGlobal_parse(parser))
    /\ pc' = IF GetGlobal_parse(parser).ok THEN "form_ok" ELSE "form_err"
    /\ UNCHANGED <<directives, trace, script, lit>>

ParseAssertReturn ==
    /\ pc = "form" /\ lit.rule = "assert_return"
    /\ parser' = AssertReturn_parse(parser).p
    /\ result' = Returned(AssertReturn_parse(parser))
    /\ pc' = IF AssertReturn_parse(parser).ok THEN "form_ok" ELSE "form_err"
    /\ UNCHANGED <<directives, trace, script, lit>>

ParseEmbeddedModule ==
    /\ pc = "form" /\ lit.rule = "module"
    /\ parser' = EmbeddedModule_parse(parser).p
    /\ result' = Returned(EmbeddedModule_parse(parser))
    /\ pc' = IF EmbeddedModule_parse(parser).ok THEN "form_ok" ELSE "form_err"
    /\ UNCHANGED <<directives, trace, script, lit>>

NextForm ==
    ParseInvoke \/ ParseRegister \/ ParseGetGlobal \/ ParseAssertReturn \/ ParseEmbeddedModule

SpecForm == InitForm /\ [][NextForm]_vars

(***************************************************************************)
(* Claims about the action and assertion rules (checked under SpecForm).   *)
(***************************************************************************)
FormDone(rule) == pc \in {"form_ok", "form_err"} /\ lit.rule = rule

UnexpectedToken == ~result.ok /\ result.e.kind.k = "Unexpected"

\* The first n constants decoded, in source order.
Values(n) == [i \in 1..n |-> NthValue(i)]

IdOf(a) == IF a.id = "none" THEN None ELSE "$m"

\* C15: assert_return wraps one action chosen by the two tokens that follow.
\* With '(invoke' the result is the invoke form, its expected constant present
\* exactly when a '(' follows the invoke; with '(get' it is the global-read
\* form, which takes exactly one expected constant; any other continuation is
\* an unexpected-token error; both forms need the closing ')'.
C15_AssertReturn ==
    FormDone("assert_return") =>
        /\ lit.d.inner.kw = "invoke" =>
               /\ result.ok = (lit.d.expected <= 1 /\ lit.d.close)
               /\ result.ok =>
                      /\ result.v.k = "Invoke"
                      /\ result.v.invoke.id = IdOf(lit.d.inner)
                      /\ result.v.invoke.name = S_e
                      /\ result.v.invoke.args = Values(lit.d.inner.args)
                      /\ result.v.expected =
                             (IF lit.d.expected = 1 THEN NthValue(1) ELSE None)
        /\ lit.d.inner.kw = "get" =>
               /\ result.ok = (lit.d.expected = 1 /\ lit.d.close)
               /\ result.ok =>
                      /\ result.v.k = "Global"
                      /\ result.v.get.id = IdOf(lit.d.inner)
                      /\ result.v.get.name = S_e
                      /\ result.v.expected = NthValue(1)
        /\ lit.d.inner.kw \notin {"invoke", "get"} =>
               /\ UnexpectedToken
               /\ result.e.kind.expected = "'(invoke' or '(get' for assert_return"
        /\ ~lit.d.close => ~result.ok

\* (assert_return (get "e") (i32.const 42)) has given the global-read form of
\* name "e" without identifier and the expected constant I32(42).
C15_Witness ==
    /\ pc = "form_ok"
    /\ lit.toks = <<LParen, Keyword("assert_return"), LParen, Keyword("get"), Str(S_e),
                    RParen, LParen, Keyword("i32.const"), Dec(<<52, 50>>), RParen, RParen>>
    /\ result.v.k = "Global"
    /\ result.v.get.id = None /\ result.v.get.name = <<101>>
    /\ result.v.expected = [k |-> "I32", bits |-> <<42, 0>>]

ActionDone == pc \in {"form_ok", "form_err"} /\ lit.rule \in {"invoke", "register", "get"}

\* The form is ( kw $m "e" constant* ) with constants after invoke only.
IdBeforeName ==
    /\ lit.d.id = "before" /\ lit.d.close
    /\ lit.rule # "invoke" => lit.d.args = 0

AcceptedWithId ==
    /\ result.ok
    /\ result.v.id = "$m"
    /\ result.v.name = S_e

\* For every one of invoke, register and get the form (K $id "name" ...) is
\* accepted with the identifier $id and the name "name".
C16_IdBeforeName == (ActionDone /\ IdBeforeName) => AcceptedWithId

\* C16: invoke and get take an identifier, if it is the next token after the
\* keyword, as the optional identifier, then a string as the name, then (invoke)
\* the argument constants in source order, then need the closing ')':
\* (K $id "name" ...) is accepted with identifier $id and name "name" for K
\* invoke or get.  register does not look for an identifier after its keyword:
\* (register $id "name") fails with an unexpected-token error on $id.
C16_IdThenName ==
    /\ (FormDone("invoke") \/ FormDone("get")) =>
           /\ result.ok = (/\ lit.d.id # "after" /\ lit.d.close
                           /\ lit.rule = "get" => lit.d.args = 0)
           /\ result.ok =>
                  /\ result.v.id = IdOf(lit.d)
                  /\ result.v.name = S_e
                  /\ lit.rule = "invoke" => result.v.args = Values(lit.d.args)
    /\ (FormDone("register") /\ IdBeforeName) =>
           /\ UnexpectedToken
           /\ result.e.kind.token = Ident("$m")

\* (invoke $m "e" (i32.const 42) (i32.const 2)) has been accepted.
C16_Witness ==
    /\ pc = "form_ok" /\ lit.rule = "invoke"
    /\ lit.d = [kw |-> "invoke", id |-> "before", args |-> 2, close |-> TRUE]
    /\ result.v.id = "$m"
    /\ result.v.args = <<[k |-> "I32", bits |-> <<42, 0>>], [k |-> "I32", bits |-> <<2, 0>>]>>

\* C17: register takes the name string first and then an optional identifier:
\* (register "e") gives the name without identifier, (register "e" $m) the
\* name with the identifier $m; the closing ')' is needed after them.
C17_RegisterNameFirst ==
    (FormDone("register") /\ lit.d.id # "before") =>
        /\ result.ok = (lit.d.close /\ lit.d.args = 0)
        /\ result.ok =>
               /\ result.v.name = S_e
               /\ result.v.id = (IF lit.d.id = "after" THEN "$m" ELSE None)

\* (register "e" $m) has given the name e with the identifier $m.
C17_Witness ==
    /\ pc = "form_ok"
    /\ lit.toks = <<LParen, Keyword("register"), Str(S_e), Ident("$m"), RParen>>
    /\ result.v.name = <<101>> /\ result.v.id = "$m"

\* The bytes each string of an embedded module stands for.
StringBytes(s) ==
    CASE s = S_asm -> <<0, 97, 115, 109>>
      [] s = S_version -> <<1, 0, 0, 0>>
      [] s = S_ff -> <<255>>
      [] OTHER -> s

RECURSIVE Concatenated(_)
Concatenated(ss) ==
    IF ss = <<>> THEN <<>> ELSE StringBytes(Head(ss)) \o Concatenated(Tail(ss))

\* Every string of the form decodes: to bytes under binary, to text under quote.
StringsDecode(m) == m.kw = "quote" => \A i \in 1..Len(m.strings) : m.strings[i] # S_ff

\* C18: the embedded module form ( module [identifier] (quote | binary) string* )
\* gives, for binary, the decoded bytes of its strings concatenated in source
\* order and, for quote, their decoded texts concatenated in source order; an
\* identifier after 'module' is skipped and changes nothing of the result; a
\* token other than a string or ')' after the keyword, and the end of the
\* input, is an unexpected-token error.
C18_EmbeddedModule ==
    (FormDone("module") /\ StringsDecode(lit.d)) =>
        /\ lit.d.tail = <<RParen>> =>
               /\ result.ok
               /\ result.v = [start |-> 0,
                              embedded |-> [k |-> IF lit.d.kw = "binary" THEN "Binary"
                                                  ELSE "Quote",
                                            data |-> Concatenated(lit.d.strings)]]
        /\ lit.d.tail = <<>> =>
               /\ UnexpectedToken
               /\ result.e.kind.token = None
        /\ (lit.d.tail \notin {<<>>, <<RParen>>} /\ lit.d.tail[1].t # "String") =>
               /\ UnexpectedToken
               /\ result.e.kind.token = lit.d.tail[1]

\* (module $M1 binary "\00asm" "\01\00\00\00") has given the eight bytes of
\* the two strings in their order.
C18_Witness ==
    /\ pc = "form_ok" /\ lit.rule = "module"
    /\ lit.d = [id |-> TRUE, kw |-> "binary", strings |-> <<S_asm, S_version>>,
                tail |-> <<RParen>>]
    /\ result.v.embedded = [k |-> "Binary", data |-> <<0, 97, 115, 109, 1, 0, 0, 0>>]

(***************************************************************************)
(* Claims about hexadecimal floats (checked under SpecFloat).              *)
(***************************************************************************)
HexFloatDone == ConstDone /\ FloatKw /\ IsFloat("Val") /\ lit.tok.f.base = "Hex"

\* The hexadecimal digits of the literal, those before and after the point
\* together, and the number of those after it.
HexDigits(frac) ==
    replace_underscore(UpTo(frac, IndexOf(frac, 46, 1)) \o Past(frac, IndexOf(frac, 46, 1)))

FractionLen(frac) == Len(replace_underscore(Past(frac, IndexOf(frac, 46, 1))))

\* (I + F) * 16^n for n digits after the point: the digits read as one integer.
Mantissa(frac) ==
    FromStrRadixFrom(HexDigits(frac), 16, Zero(Len(frac) \div 4 + 1), 1).u

\* The exponent e after 'p', 0 when there is none.
ExponentOf(exp) ==
    IF exp = None THEN 0
    ELSE IF exp.sign = "Minus" THEN 0 - SmallDecimal(replace_underscore(exp.digits), 0)
    ELSE SmallDecimal(replace_underscore(exp.digits), 0)

\* sign * (I + F) * 2^e as a number m * 2^k with m odd or zero.
ExactValue(tok) ==
    Canonical(tok.sign = "Minus", Mantissa(tok.f.frac),
              ExponentOf(tok.f.exp) - 4 * FractionLen(tok.f.frac))

\* The number m * 2^k is a value of the format: m has no more bits than the
\* precision and its lowest and highest bit lie in the range of the format.
Representable(fmt, x) ==
    \/ BitLen(x.m) = 0
    \/ /\ BitLen(x.m) <= fmt.p
       /\ x.e >= fmt.emin
       /\ x.e + BitLen(x.m) - 1 <= fmt.emax

LitFormat == FloatFormat(IF lit.kw = "f32.const" THEN "f32" ELSE "f64")

\* C19: a hexadecimal float decodes to sign * (I + F) * 2^e, I the value of the
\* digits before the point, F the sum of d_k / 16^k over the digits after it,
\* e the signed decimal exponent after 'p' (0 without one), underscores
\* ignored: whenever that number is a value of the format, it is the result.
C19_HexFloatExact ==
    (HexFloatDone /\ Representable(LitFormat, ExactValue(lit.tok))) =>
        /\ result.ok
        /\ result.v = [k |-> FloatTag, v |-> ExactValue(lit.tok)]

(***************************************************************************)
(* The cursor, step by step: consume, peek, parse_maybe_id and the         *)
(* identifier skip of an embedded module, in any order, on the text of a   *)
(* form.  trace holds the byte offset of the token last advanced past.     *)
(***************************************************************************)
StepSources ==
    {f.toks : f \in {g \in Forms : Len(g.toks) <= 6}}
    \cup {<<LParen, Keyword("invoke"), Ident("$m"), [t |-> "Bad"]>>}

InitSteps ==
    /\ lit \in StepSources
    /\ parser = Parser_new(Source(lit))
    /\ pc = "steps"
    /\ trace = [advanced |-> 0]
    /\ directives = <<>>
    /\ result = None
    /\ script = <<>>

\* The offset of the token the lexer is at, and whether it is an identifier.
NextItem == LookAhead_peek(parser.tokens)

AtIdent == peek(parser).ok /\ NextItem # None /\ NextItem.tok.t = "Ident"

StepConsume ==
    /\ pc = "steps"
    /\ parser' = consume(parser).p
    /\ result' = Returned(consume(parser))
    /\ trace' = IF NextItem = None THEN [advanced |-> parser.source.len]
                ELSE IF NextItem.ok THEN [advanced |-> NextItem.off]
                ELSE trace
    /\ UNCHANGED <<pc, directives, script, lit>>

StepPeek ==
    /\ pc = "steps"
    /\ parser' = peek(parser).p
    /\ result' = Returned(peek(parser))
    /\ UNCHANGED <<pc, trace, directives, script, lit>>

StepMaybeId ==
    /\ pc = "steps"
    /\ parser' = parse_maybe_id(parser).p
    /\ result' = Returned(parse_maybe_id(parser))
    /\ trace' = IF AtIdent THEN [advanced |-> NextItem.off] ELSE trace
    /\ UNCHANGED <<pc, directives, script, lit>>

StepSkipId ==
    /\ pc = "steps"
    /\ parser' = skip_id(parser).p
    /\ result' = Returned(skip_id(parser))
    /\ trace' = IF AtIdent THEN [advanced |-> NextItem.off] ELSE trace
    /\ UNCHANGED <<pc, directives, script, lit>>

NextSteps == StepConsume \/ StepPeek \/ StepMaybeId \/ StepSkipId

SpecSteps == InitSteps /\ [][NextSteps]_vars

(***************************************************************************)
(* Claims about the recorded position (checked under SpecSteps).           *)
(***************************************************************************)
\* C20: after any sequence of parsing steps the recorded byte offset is the
\* offset of the token last advanced past (0 before any token, the length of
\* the source once the end of the input has been consumed), also when that
\* token is an optional identifier of invoke, get, register or an embedded
\* module.
C20_PositionTracksCursor == pc = "steps" => parser.current_pos = trace.advanced

(***************************************************************************)
(* Claims about the retained discarded error (checked under Spec).         *)
(***************************************************************************)
\* C21: the discarded error of an embedded-module attempt is context for its
\* own module directive only: an error the parse returns has a prior-error
\* link only if the directive it was raised in discarded an attempt itself.
C21_LinkOfOwnDirective ==
    (pc = "failed" /\ result.e.prev_error # None) => FellBack

(***************************************************************************)
(* Claims about the location of an error (checked under Spec).             *)
(***************************************************************************)
\* The parse failed with an unexpected-token error that reports a token.
ReportsToken ==
    /\ pc = "failed"
    /\ result.e.kind.k = "Unexpected"
    /\ result.e.kind.token # None

\* The i-th item of the source is the reported token at the reported offset.
OffendingAt(i) ==
    /\ parser.source.items[i].ok
    /\ parser.source.items[i].tok = result.e.kind.token
    /\ parser.source.items[i].off = result.e.pos

\* The token the failed dispatch reports: the first of the two it looked at
\* when that is no '(', the second otherwise.
DispatchedAt ==
    IF result.e.kind.expected = "'(' for start of WAST directive" THEN trace.at
    ELSE trace.at + 1

\* C22: an unexpected-token error that reports a token is located at the byte
\* offset of that token: the token is one of the form the error was raised in
\* or after, at the offset of the error, and after a failed dispatch it is the
\* peeked token the dispatch reports.
C22_ErrorAtOffendingToken ==
    ReportsToken =>
        /\ \E i \in trace.at..Len(parser.source.items) : OffendingAt(i)
        /\ DispatchFailed => OffendingAt(DispatchedAt)

(***************************************************************************)
(* Claims about integer operands of the float keywords (checked under      *)
(* SpecConst).                                                             *)
(***************************************************************************)
FloatConstDone == pc \in {"const_ok", "const_err"} /\ lit.kw \in {"f32.const", "f64.const"}

\* The integer s * u converted to the format of the keyword, rounded to
\* nearest, ties to even.
Converted ==
    Rounded(FloatFormat(IF lit.kw = "f32.const" THEN "f32" ELSE "f64"),
            lit.sign = "Minus" /\ lit.u # Zero(Wide), lit.u, 0)

\* C23: an integer operand of f32.const or f64.const with the sign s and the
\* digit value u <= 2^64 - 1 decodes to the float the integer s * u converts
\* to: a plus-signed operand never to a negative float, and a minus-signed
\* operand is never rejected.
C23_IntOperandConverted ==
    (FloatConstDone /\ Less(lit.u, PowerOfTwo(64, Wide))) =>
        /\ result.ok
        /\ result.v = [k |-> IF lit.kw = "f32.const" THEN "F32" ELSE "F64", v |-> Converted]
        /\ lit.sign = "Plus" => ~result.v.v.neg

(***************************************************************************)
(* The three loops, one step per iteration: the directive loop of          *)
(* Root::parse on a script, the argument loop of Invoke::parse entered     *)
(* after the name of an invoke form, and the string loop of                *)
(* EmbeddedModule::parse entered after the quote or binary keyword.        *)
(* directives holds what the loop has pushed so far, trace the parser as   *)
(* the last iteration found it.                                            *)
(***************************************************************************)
\* One turn of `while let (Some(Token::LParen), _) = parser.peek()? {
\* args.push(parser.parse()?) }`: the argument, the error, or the end of the loop.
invoke_args_turn(p) ==
    Then(peek(p), LAMBDA pk :
        IF pk.v[1].t = "LParen" THEN Tagged("Arg", Const_parse(p))
        ELSE Ok([k |-> "Done"], p))

\* The turn with the token looked at and left where it is.
embedded_turn_peeking(p, kw) ==
    Then(peek(p), LAMBDA pk :
        IF pk.v[1].t = "String" THEN Ok([k |-> "Data", v |-> <<>>], p)
        ELSE IF pk.v[1].t = "RParen" THEN Ok([k |-> "Done"], p)
        ELSE unexpected_token(p, pk.v[1], "string for module quote or ')'"))

\* One turn of the `loop { match parser.consume()? { .. } }` of an embedded
\* module: the bytes of a string, the end of the loop at ')', or the error.
embedded_turn(p, kw) ==
    Then(consume(p), LAMBDA r :
        IF r.v.t = "String"
        THEN Tagged("Data", IF kw = "quote" THEN parse_escaped_text(r.p, r.v.s)
                            ELSE parse_escaped(r.p, r.v.s))
        ELSE IF r.v.t = "RParen" THEN Ok([k |-> "Done"], r.p)
        ELSE unexpected_token(r.p, r.v,
                 IF kw = "quote" THEN "string for module quote or ')'"
                 ELSE "string for module binary or ')'"))

\* Invoke::parse up to its loop: the start, the identifier, the name.
InvokeEntry(toks) ==
    Then(parse_start(Parser_new(Source(toks)), "invoke"), LAMBDA start :
    Then(parse_maybe_id(start.p), LAMBDA id : String_parse(id.p)))

\* EmbeddedModule::parse up to its loop: the start, the identifier, the keyword.
EmbeddedEntry(toks) ==
    Then(parse_start(Parser_new(Source(toks)), "module"), LAMBDA start :
    Then(skip_id(start.p), LAMBDA id : consume(id.p)))

\* Invoke forms whose arguments end in a constant that cannot be parsed, in a
\* token the lexer rejects, or with the text.
BrokenArgs ==
    {<<LParen, Keyword("invoke"), Str(S_e)>> \o Consts(n) \o t :
        n \in 0..MaxArgs,
        t \in {<<LParen>>, <<LParen, Keyword("bogus"), RParen, RParen>>,
               <<LParen, Keyword("i32.const"), Str(S_e), RParen, RParen>>,
               <<[t |-> "Bad"]>>, <<LParen, [t |-> "Bad"]>>}}

ArgSources ==
    {f.toks : f \in {g \in Forms : g.rule = "invoke"}} \cup BrokenArgs

StringSources == {f.toks : f \in {g \in Forms : g.rule = "module"}}

InitLoops ==
    \/ Init
    \/ /\ lit \in {t \in ArgSources : InvokeEntry(t).ok}
       /\ parser = InvokeEntry(lit).p
       /\ pc = "args"
       /\ directives = <<>>
       /\ result = None
       /\ trace = None
       /\ script = <<>>
    \/ /\ lit \in {t \in StringSources : EmbeddedEntry(t).ok
                                         /\ EmbeddedEntry(t).v.t = "Keyword"
                                         /\ EmbeddedEntry(t).v.s \in {"quote", "binary"}}
       /\ parser = EmbeddedEntry(lit).p
       /\ pc = "strings"
       /\ directives = <<>>
       /\ result = None
       /\ trace = None
       /\ script = <<>>

\* `args.push(parser.parse()?)` with a constant parsed.
ArgsPush ==
    /\ pc = "args"
    /\ invoke_args_turn(parser).ok
    /\ invoke_args_turn(parser).v.k # "Done"
    /\ parser' = invoke_args_turn(parser).p
    /\ directives' = Append(directives, invoke_args_turn(parser).v.v)
    /\ trace' = Seen
    /\ UNCHANGED <<pc, result, script, lit>>

\* peek() or the constant returns an error.
ArgsFail ==
    /\ pc = "args"
    /\ ~invoke_args_turn(parser).ok
    /\ parser' = invoke_args_turn(parser).p
    /\ result' = Returned(invoke_args_turn(parser))
    /\ pc' = "args_failed"
    /\ directives' = <<>>
    /\ trace' = Seen
    /\ UNCHANGED <<script, lit>>

\* The next token is no '(': the loop ends with the arguments.
ArgsDone ==
    /\ pc = "args"
    /\ invoke_args_turn(parser).ok
    /\ invoke_args_turn(parser).v.k = "Done"
    /\ result' = [ok |-> TRUE, v |-> directives]
    /\ pc' = "args_done"
    /\ trace' = Seen
    /\ UNCHANGED <<parser, directives, script, lit>>

\* The keyword the string loop was entered under.
EmbeddedKw == EmbeddedEntry(lit).v.s

\* `text.push_str(..)` / `bin.append(..)` with a string decoded.
StringsPush ==
    /\ pc = "strings"
    /\ embedded_turn(parser, EmbeddedKw).ok
    /\ embedded_turn(parser, EmbeddedKw).v.k # "Done"
    /\ parser' = embedded_turn(parser, EmbeddedKw).p
    /\ directives' = directives \o embedded_turn(parser, EmbeddedKw).v.v
    /\ trace' = Seen
    /\ UNCHANGED <<pc, result, script, lit>>

\* consume(), the decoding or a token that is no string and no ')' returns an error.
StringsFail ==
    /\ pc = "strings"
    /\ ~embedded_turn(parser, EmbeddedKw).ok
    /\ parser' = embedded_turn(parser, EmbeddedKw).p
    /\ result' = Returned(embedded_turn(parser, EmbeddedKw))
    /\ pc' = "strings_failed"
    /\ directives' = <<>>
    /\ trace' = Seen
    /\ UNCHANGED <<script, lit>>

\* The ')' is consumed: the loop returns the embedded module.
StringsDone ==
    /\ pc = "strings"
    /\ embedded_turn(parser, EmbeddedKw).ok
    /\ embedded_turn(parser, EmbeddedKw).v.k = "Done"
    /\ parser' = embedded_turn(parser, EmbeddedKw).p
    /\ result' = [ok |-> TRUE, v |-> directives]
    /\ pc' = "strings_done"
    /\ trace' = Seen
    /\ UNCHANGED <<directives, script, lit>>

NextLoops ==
    \/ RootDirective \/ RootFail \/ RootDone
    \/ ArgsPush \/ ArgsFail \/ ArgsDone
    \/ StringsPush \/ StringsFail \/ StringsDone

SpecLoops == InitLoops /\ [][NextLoops]_vars

(***************************************************************************)
(* Claims about termination (checked under SpecLoops).  In a state that is  *)
(* not Ended one of the three steps of its loop can be taken, their guards *)
(* being exhaustive: a behaviour that takes no step any more has ended or  *)
(* is never resumed, and no fairness is needed to tell that every          *)
(* behaviour takes finitely many steps.                                    *)
(***************************************************************************)
\* The iterations of the argument loop and of the string loop make up what
\* invoke_args and embedded_loop return for the parser the loop was entered with.
LoopsAgree ==
    /\ pc = "args_done" =>
           Returned(invoke_args(InvokeEntry(lit).p, <<>>)) = result
    /\ pc = "args_failed" =>
           Returned(invoke_args(InvokeEntry(lit).p, <<>>)) = result
    /\ pc = "strings_done" =>
           Returned(embedded_loop(EmbeddedEntry(lit).p, EmbeddedKw, <<>>)) = result
    /\ pc = "strings_failed" =>
           Returned(embedded_loop(EmbeddedEntry(lit).p, EmbeddedKw, <<>>)) = result

\* The last iteration pushed and the loop goes on.
Pushed == trace # None /\ pc \in {"loop", "args", "strings"}

\* The turn the directive loop is about to take ends it with the Root.
Stops == loop_turn(parser).ok /\ loop_turn(parser).v.k = "Done"

Ended == pc \in {"done", "failed", "args_done", "args_failed",
                 "strings_done", "strings_failed"}

\* An iteration that returned no error has moved the cursor at least one
\* token on; a loop that ended returned a result or an error; the directive
\* loop returns the Root when, and only when, no token is left.
EveryTurnAdvances ==
    /\ Pushed => parser.tokens.at > trace.at
    /\ pc = "strings_done" => parser.tokens.at > trace.at
    /\ Ended => result # None
    /\ pc \in {"failed", "args_failed", "strings_failed"} => ~result.ok
    /\ pc = "done" =>
           /\ result = [ok |-> TRUE, v |-> [directives |-> directives]]
           /\ LookAhead_peek(parser.tokens) = None
    /\ pc = "loop" => (Stops <=> LookAhead_peek(parser.tokens) = None)

\* C24: parsing a Root over a finite token sequence ends with a Root or an
\* error: every iteration of the directive loop, of the argument loop of
\* invoke and of the string loop of an embedded module moves the cursor at
\* least one token on or returns an error, the directive loop stops with the
\* Root exactly when no token is left, and no loop takes steps for ever.
C24_Terminates == []EveryTurnAdvances /\ <>[][FALSE]_vars

\* Three directives were parsed, one iteration each, and with no token left
\* the loop has returned the Root.
C24_Witness ==
    /\ pc = "done"
    /\ Len(result.v.directives) = 3
    /\ trace.parsed = 3
    /\ trace.at = Len(parser.source.items) + 1
    /\ trace.at > 9

====
